---------------------------- MODULE Spec2Model ----------------------------
(***************************************************************************)
(* tar-vern: streaming ustar packer (createTarPacker) and extractor        *)
(* (createTarExtractor).                                                   *)
(*                                                                         *)
(* Bytes are naturals 0..255, buffers are sequences of bytes, JavaScript   *)
(* strings are sequences of Unicode code points.  A chunked stream is a    *)
(* sequence of buffers.                                                    *)
(***************************************************************************)
EXTENDS Integers, Sequences, FiniteSets, TLC

(***************************************************************************)
(* Program constants                                                       *)
(***************************************************************************)
\* Tar specification: name max 100 bytes, prefix max 155 bytes
MAX_NAME == 100
MAX_PREFIX == 155
\* size of a tar block (header, content boundary)
BLOCK == 512
\* Buffer.alloc(1024, 0)
TERMINATOR_LENGTH == 1024
\* field widths handed to getOctalBytes
OCTAL8 == 8
OCTAL12 == 12
\* width of uname / gname
NAME32 == 32
\* mode & 0o7777
MODE_MASK == 4095

(***************************************************************************)
(* Generic sequence helpers                                                *)
(***************************************************************************)
Zeros(n) == [i \in 1..n |-> 0]

Drop(s, n) == SubSeq(s, n + 1, Len(s))

Take(s, n) == SubSeq(s, 1, n)

RECURSIVE Flatten(_)
Flatten(ss) == IF ss = << >> THEN << >> ELSE Head(ss) \o Flatten(Tail(ss))

RECURSIVE TotalLen(_)
TotalLen(ss) == IF ss = << >> THEN 0 ELSE Len(Head(ss)) + TotalLen(Tail(ss))

\* sum of f[lo..hi], by halving so that the evaluation stays shallow
RECURSIVE SumRange(_, _, _)
SumRange(f, lo, hi) ==
  IF lo > hi THEN 0
  ELSE IF lo = hi THEN f[lo]
  ELSE IF hi - lo = 7
    THEN f[lo] + f[lo + 1] + f[lo + 2] + f[lo + 3]
           + f[lo + 4] + f[lo + 5] + f[lo + 6] + f[lo + 7]
  ELSE LET mid == lo + ((hi - lo + 1) \div 2) - 1
       IN  SumRange(f, lo, mid) + SumRange(f, mid + 1, hi)

AllZero(buf) == \A i \in 1..Len(buf) : buf[i] = 0

(***************************************************************************)
(* Strings: UTF-8 encoding and decoding (Buffer.from(str, 'utf8'),         *)
(* buffer.toString('utf8'))                                                *)
(***************************************************************************)
Utf8Char(cp) ==
  IF cp < 128 THEN <<cp>>
  ELSE IF cp < 2048 THEN <<192 + (cp \div 64), 128 + (cp % 64)>>
  ELSE IF cp < 65536
    THEN <<224 + (cp \div 4096), 128 + ((cp \div 64) % 64), 128 + (cp % 64)>>
    ELSE <<240 + (cp \div 262144), 128 + ((cp \div 4096) % 64),
           128 + ((cp \div 64) % 64), 128 + (cp % 64)>>

\* the encoding of str[lo..hi], by halving so that the evaluation stays shallow
RECURSIVE Utf8EncodeRange(_, _, _)
Utf8EncodeRange(str, lo, hi) ==
  IF lo > hi THEN << >>
  ELSE IF lo = hi THEN Utf8Char(str[lo])
  ELSE LET mid == (lo + hi) \div 2
       IN  Utf8EncodeRange(str, lo, mid) \o Utf8EncodeRange(str, mid + 1, hi)

Utf8Encode(str) == Utf8EncodeRange(str, 1, Len(str))

IsCont(b) == b >= 128 /\ b < 192

\* one decoding step at index i of b: <<code point, bytes used>>
Utf8Step(b, i) ==
  LET c == b[i]
      has(k) == i + k <= Len(b) /\ \A j \in 1..k : IsCont(b[i + j])
  IN  IF c < 128 THEN <<c, 1>>
      ELSE IF c >= 194 /\ c < 224 /\ has(1)
        THEN <<(c - 192) * 64 + (b[i + 1] - 128), 2>>
      ELSE IF c >= 224 /\ c < 240 /\ has(2)
        THEN <<(c - 224) * 4096 + (b[i + 1] - 128) * 64 + (b[i + 2] - 128), 3>>
      ELSE IF c >= 240 /\ c < 245 /\ has(3)
        THEN <<(c - 240) * 262144 + (b[i + 1] - 128) * 4096
                 + (b[i + 2] - 128) * 64 + (b[i + 3] - 128), 4>>
      ELSE <<65533, 1>>   \* U+FFFD for a malformed sequence

\* byte i continues a well-formed sequence opened by a lead byte before it
Utf8Covered(b, i) ==
  /\ IsCont(b[i])
  /\ \E k \in 1..3 : i - k >= 1 /\ ~IsCont(b[i - k]) /\ Utf8Step(b, i - k)[2] > k

Utf8Decode(b) ==
  IF \A i \in 1..Len(b) : b[i] < 128 THEN b ELSE
  LET starts == SelectSeq([i \in 1..Len(b) |-> i], LAMBDA i : ~Utf8Covered(b, i))
  IN  [k \in 1..Len(starts) |-> Utf8Step(b, starts[k])[1]]

\* buffer.toString('ascii'): the high bit of every byte is dropped
AsciiDecode(b) == [i \in 1..Len(b) |-> b[i] % 128]

\* String.prototype.trim: white space and line terminators
WhiteSpace ==
  {9, 10, 11, 12, 13, 32, 160, 5760, 8232, 8233, 8239, 8287, 12288, 65279}
    \cup (8192..8202)

RemoveNul(str) == SelectSeq(str, LAMBDA c : c # 0)

Trim(str) ==
  LET keep == {i \in 1..Len(str) : str[i] \notin WhiteSpace}
  IN  IF keep = {} THEN << >>
      ELSE SubSeq(str, CHOOSE i \in keep : \A j \in keep : i <= j,
                       CHOOSE i \in keep : \A j \in keep : j <= i)

\* Number.prototype.toString(10) of a non-negative integer
RECURSIVE ToDecimal(_)
ToDecimal(n) ==
  IF n < 10 THEN <<48 + n>> ELSE ToDecimal(n \div 10) \o <<48 + (n % 10)>>

\* Number.prototype.toString(8) of a non-negative integer
RECURSIVE ToOctal(_)
ToOctal(n) ==
  IF n < 8 THEN <<48 + n>> ELSE ToOctal(n \div 8) \o <<48 + (n % 8)>>

PadStart(str, n, c) ==
  IF Len(str) >= n THEN str ELSE [i \in 1..(n - Len(str)) |-> c] \o str

(***************************************************************************)
(* packer.ts: path splitting                                               *)
(***************************************************************************)
utf8ByteLength(str) == Len(Utf8Encode(str))

\* Truncation that counts characters instead of bytes.
truncateChars(str, maxBytes) == IF Len(str) <= maxBytes THEN str ELSE Take(str, maxBytes)

\* the longest prefix of str, in whole code points, of at most maxBytes bytes
truncateUtf8Safe(str, maxBytes) ==
  LET charBytes == [i \in 1..Len(str) |-> Len(Utf8Char(str[i]))]
      fits == {i \in 0..Len(str) : SumRange(charBytes, 1, i) <= maxBytes}
  IN  IF SumRange(charBytes, 1, Len(str)) <= maxBytes THEN str
      ELSE Take(str, CHOOSE i \in fits : \A j \in fits : j <= i)

Slash == 47

\* index of the last '/' of str, 0 when there is none
LastSlash(str) ==
  LET at == {i \in 1..Len(str) : str[i] = Slash}
  IN  IF at = {} THEN 0 ELSE CHOOSE i \in at : \A j \in at : j <= i

\* splitPath without the split: the whole path goes to the name field.
splitPathNameOnly(path) == [prefix |-> << >>, name |-> path]

splitPath(path) ==
  IF utf8ByteLength(path) <= MAX_NAME THEN [prefix |-> << >>, name |-> path]
  ELSE LET cut == LastSlash(path)
           name0 == Drop(path, cut)
           prefix0 == IF cut = 0 THEN << >> ELSE Take(path, cut - 1)
           name == IF utf8ByteLength(name0) > MAX_NAME
                     THEN truncateUtf8Safe(name0, MAX_NAME) ELSE name0
           prefix == IF utf8ByteLength(prefix0) > MAX_PREFIX
                       THEN truncateUtf8Safe(prefix0, MAX_PREFIX) ELSE prefix0
       IN  [prefix |-> prefix, name |-> name]

(***************************************************************************)
(* packer.ts: header encoding                                              *)
(***************************************************************************)
\* The digits followed by a NUL and a space.
getOctalBytesSpaced(value, length) ==
  PadStart(ToOctal(value), length - 2, 48) \o <<0, 32>>

getOctalBytes(value, length) == PadStart(ToOctal(value), length - 1, 48) \o <<0>>

\* getPaddedBytes adding a whole block of padding to an aligned buffer.
getPaddedBytesAlways(buffer) == buffer \o Zeros(BLOCK - (Len(buffer) % BLOCK))

\* getPaddedBytes without the padding.
getUnpaddedBytes(buffer) == buffer

getPaddedBytes(buffer) ==
  LET extra == Len(buffer) % BLOCK
  IN  IF extra = 0 THEN buffer ELSE buffer \o Zeros(BLOCK - extra)

\* A terminator of one block instead of two.
singleTerminatorBlock == Zeros(BLOCK)

terminatorBytes == Zeros(TERMINATOR_LENGTH)

\* source.copy(target, offset) and the byte effect of target.write(...): the
\* bytes land at offset.., cut at the end of the 512-byte target
WriteAt(buf, offset, bytes) ==
  LET n == IF offset + Len(bytes) > Len(buf) THEN Len(buf) - offset ELSE Len(bytes)
  IN  Take(buf, offset) \o Take(bytes, n) \o Drop(buf, offset + n)

\* buffer.write(str, offset, length, 'utf8'): whole characters only
WriteString(buf, str, offset, length) ==
  WriteAt(buf, offset, Utf8Encode(truncateUtf8Safe(str, length)))

\* The checksum field left as the zeros of the fresh buffer.
Nuls8 == [i \in 1..OCTAL8 |-> 0]

Spaces8 == [i \in 1..OCTAL8 |-> 32]

Ustar == <<117, 115, 116, 97, 114>>

\* The mode with every bit it carries.
wholeMode(mode) == mode

\* mode & 0o7777
maskedMode(mode) == mode % (MODE_MASK + 1)

createTarHeader(type, path, size, mode, uname, gname, uid, gid, date) ==
  LET sp == splitPath(path)
      b0 == Zeros(BLOCK)
      b1 == WriteString(b0, sp.name, 0, MAX_NAME)
      b2 == WriteAt(b1, 100, getOctalBytes(maskedMode(mode), OCTAL8))
      b3 == WriteAt(b2, 108, getOctalBytes(uid, OCTAL8))
      b4 == WriteAt(b3, 116, getOctalBytes(gid, OCTAL8))
      b5 == WriteAt(b4, 124, getOctalBytes(size, OCTAL12))
      b6 == WriteAt(b5, 136, getOctalBytes(date \div 1000, OCTAL12))
      b7 == WriteAt(b6, 148, Spaces8)
      b8 == WriteAt(b7, 156, IF type = "file" THEN <<48>> ELSE <<53>>)
      b9 == WriteAt(b8, 257, Ustar \o <<0>>)
      b10 == WriteAt(b9, 263, <<48, 48>>)
      b11 == WriteString(b10, uname, 265, NAME32)
      b12 == WriteString(b11, gname, 297, NAME32)
      b13 == WriteString(b12, sp.prefix, 345, MAX_PREFIX)
      sum == SumRange(b13, 1, BLOCK)
  IN  WriteAt(b13, 148, getOctalBytes(sum, OCTAL8))

(***************************************************************************)
(* extractor: header decoding                                              *)
(***************************************************************************)
\* stands for the value JavaScript calls NaN (no field decodes to it)
NaN == 0 - 2147483647

IsOctalDigit(c) == c >= 48 /\ c <= 55

RECURSIVE OctalValue(_, _, _)
OctalValue(str, i, acc) ==
  IF i > Len(str) \/ ~IsOctalDigit(str[i]) THEN acc
  ELSE OctalValue(str, i + 1, acc * 8 + (str[i] - 48))

\* parseInt(str, 8) for a string without leading white space
parseInt8(str) ==
  LET neg == str # << >> /\ Head(str) = 45
      signed == str # << >> /\ Head(str) \in {43, 45}
      digits == IF signed THEN Tail(str) ELSE str
  IN  IF digits = << >> \/ ~IsOctalDigit(Head(digits)) THEN NaN
      ELSE IF neg THEN 0 - OctalValue(digits, 1, 0) ELSE OctalValue(digits, 1, 0)

parseOctalBytes(buffer, offset, length) ==
  LET str == Trim(RemoveNul(AsciiDecode(SubSeq(buffer, offset + 1, offset + length))))
  IN  IF str # << >> THEN parseInt8(str) ELSE 0

parseString(buffer, offset, length) ==
  Trim(RemoveNul(Utf8Decode(SubSeq(buffer, offset + 1, offset + length))))

\* The sum taken from the header's own checksum field.
storedSum(buffer) == parseOctalBytes(buffer, 148, OCTAL8)

\* the checksum as the extractor recomputes it
calculatedSum(buffer) ==
  SumRange(buffer, 1, 148) + 8 * 32 + SumRange(buffer, 157, BLOCK)

\* The path with every '/' at its end removed.
headerPathBare(prefix, name) ==
  LET path0 == IF prefix # << >> THEN prefix \o <<Slash>> \o name ELSE name
      keep == {i \in 0..Len(path0) : i = 0 \/ path0[i] # Slash}
  IN  Take(path0, CHOOSE i \in keep : \A j \in keep : j <= i)

\* "Construct full path and remove trailing slash for directories"
headerPath(prefix, name) ==
  LET path0 == IF prefix # << >> THEN prefix \o <<Slash>> \o name ELSE name
  IN  IF path0 # << >> /\ path0[Len(path0)] = Slash
        THEN Take(path0, Len(path0) - 1) ELSE path0

\* A typeflag of '0' alone making a file.
kindByFileFlag(typeflag) == IF typeflag = <<48>> THEN "file" ELSE "directory"

\* typeflag === '5' ? 'directory' : 'file'
kindOf(typeflag) == IF typeflag = <<53>> THEN "directory" ELSE "file"

\* The name field as it is stored.
storedName(name, id) == name

\* uname || uid.toString(), gname || gid.toString()
ownerName(name, id) == IF name # << >> THEN name ELSE ToDecimal(id)

\* parseTarHeader: [tag |-> "end"], [tag |-> "error", error |-> ...] or
\* [tag |-> "header", ...fields]
parseTarHeader(buffer) ==
  IF AllZero(buffer) THEN [tag |-> "end"]
  ELSE
    LET name == parseString(buffer, 0, 100)
        mode == parseOctalBytes(buffer, 100, 8)
        uid == parseOctalBytes(buffer, 108, 8)
        gid == parseOctalBytes(buffer, 116, 8)
        size == parseOctalBytes(buffer, 124, 12)
        mtime == parseOctalBytes(buffer, 136, 12) * 1000
        checksum == parseOctalBytes(buffer, 148, 8)
        typeflag == parseString(buffer, 156, 1)
        magic == parseString(buffer, 257, 6)
        uname == parseString(buffer, 265, 32)
        gname == parseString(buffer, 297, 32)
        prefix == parseString(buffer, 345, 155)
        path == headerPath(prefix, name)
    IN  IF magic # Ustar THEN [tag |-> "error", error |-> "Invalid tar format: magic"]
        ELSE IF calculatedSum(buffer) # checksum
          THEN [tag |-> "error", error |-> "Invalid checksum"]
        ELSE [tag |-> "header",
              kind |-> kindOf(typeflag),
              path |-> path,
              size |-> size,
              mode |-> mode,
              uid |-> uid,
              gid |-> gid,
              mtime |-> mtime,
              uname |-> ownerName(uname, uid),
              gname |-> ownerName(gname, gid),
              checksum |-> checksum]

(***************************************************************************)
(* utils: getBuffer                                                        *)
(***************************************************************************)
\* a JavaScript string is encoded as UTF-8, a Buffer is taken as it is
getBuffer(isString, data) == IF isString THEN Utf8Encode(data) ELSE data

(***************************************************************************)
(* Bounds of the model                                                     *)
(***************************************************************************)
\* longest entry sequence handed to createTarPacker
MaxEntries == 2
\* getContent calls a consumer makes during one extraction
MaxCalls == 2

(***************************************************************************)
(* Inputs: the entry items a caller hands to the packer                    *)
(***************************************************************************)
\* n content bytes, none of them zero
Bytes(n, seed) == [i \in 1..n |-> 1 + ((i * 7 + seed) % 250)]

Inline(kind, data) ==
  [kind |-> kind, length |-> 0, data |-> data, chunks |-> << >>, fails |-> FALSE]

Source(kind, length, chunks, fails) ==
  [kind |-> kind, length |-> length, data |-> << >>, chunks |-> chunks, fails |-> fails]

NoContent == Inline("none", << >>)

Item(kind, path, mode, uname, gname, uid, gid, date, content) ==
  [kind |-> kind, path |-> path, mode |-> mode, uname |-> uname, gname |-> gname,
   uid |-> uid, gid |-> gid, date |-> date, content |-> content]

S_user == <<117, 115, 101, 114>>
S_group == <<103, 114, 111, 117, 112>>
S_root == <<114, 111, 111, 116>>
S_hello_txt == <<104, 101, 108, 108, 111, 46, 116, 120, 116>>
S_mydir == <<109, 121, 100, 105, 114>>
S_Hello_world == <<72, 101, 108, 108, 111, 44, 32, 119, 111, 114, 108, 100, 33>>
\* "café " : a two-byte character and a trailing space
S_cafe_sp == <<99, 97, 102, 233, 32>>
\* a directory path of 127 bytes: 120 x 'd', '/', "sub", "/", "x", '/'
S_longdir == [i \in 1..120 |-> 100] \o <<47, 115, 117, 98, 47, 120, 47>>

\* the README's basic example: a text file and a directory
FileHello ==
  Item("file", S_hello_txt, 420, S_user, S_group, 1000, 1000, 1234567,
       Inline("string", S_Hello_world))
DirMy ==
  Item("directory", S_mydir, 493, S_user, S_group, 1000, 1000, 1234567, NoContent)
\* one full block of content; a stat mode with the file-type bits; no names
File512 ==
  Item("file", <<98>>, 33188, << >>, << >>, 0, 0, 0, Inline("buffer", Bytes(512, 1)))
\* one byte more than a block, from a generator, declared accurately
FileGen513 ==
  Item("file", <<103>>, 384, S_root, S_root, 0, 0, 999,
       Source("generator", 513, <<Bytes(300, 2), Bytes(213, 3)>>, FALSE))
\* no content at all
FileEmpty ==
  Item("file", S_cafe_sp, 420, S_root, S_root, 1, 2, 1000, Inline("string", << >>))
\* a readable, declared accurately, delivered in two chunks
FileReadable13 ==
  Item("file", <<114>>, 420, S_root, S_root, 0, 0, 2000,
       Source("readable", 13, <<Bytes(7, 4), Bytes(6, 5)>>, FALSE))
\* a generator whose declared length (10) is not what it produces (5)
FileLying ==
  Item("file", <<108>>, 420, S_root, S_root, 0, 0, 0,
       Source("generator", 10, <<Bytes(5, 6)>>, FALSE))
\* a readable that fails after its first chunk
FileThrows ==
  Item("file", <<116>>, 420, S_root, S_root, 0, 0, 0,
       Source("readable", 100, <<Bytes(12, 7)>>, TRUE))
\* a directory with a path over 100 bytes, written with a trailing '/'
DirLong ==
  Item("directory", S_longdir, 493, S_root, S_root, 0, 0, 0, NoContent)

EntryPool ==
  {FileHello, DirMy, File512, FileGen513, FileEmpty, FileReadable13, FileLying,
   FileThrows, DirLong}

EntrySeqs == UNION {[1..n -> EntryPool] : n \in 0..MaxEntries}

\* the content bytes an item produces when it is read to its end
ContentBytes(item) ==
  IF item.content.kind \in {"string", "buffer"}
    THEN getBuffer(item.content.kind = "string", item.content.data)
    ELSE Flatten(item.content.chunks)

\* The size with a directory's own size as the file system reports it.
statSize(item) ==
  IF item.kind = "directory" THEN 4096
  ELSE IF item.content.kind \in {"string", "buffer"} THEN Len(ContentBytes(item))
  ELSE item.content.length

\* The size counted from what the content source produces.
producedSize(item) == IF item.kind = "directory" THEN 0 ELSE Len(ContentBytes(item))

\* the size the packer writes into the header
DeclaredSize(item) ==
  IF item.kind = "directory" THEN 0
  ELSE IF item.content.kind \in {"string", "buffer"} THEN Len(ContentBytes(item))
  ELSE item.content.length

\* the data-model invariant of a content source: it produces what it declares
Accurate(item) ==
  item.kind = "file" /\ item.content.kind \in {"generator", "readable"}
    => ~item.content.fails /\ item.content.length = Len(ContentBytes(item))

(***************************************************************************)
(* State                                                                   *)
(***************************************************************************)
VARIABLES
  entries,      \* the items entryItemGenerator will yield
  genThrows,    \* entryItemGenerator throws instead of finishing
  compression,  \* compressionType ?? 'none'
  aborted,      \* signal.aborted
  pk,           \* entryItemIterator: where the generator is suspended
  out,          \* the chunks entryItemIterator has yielded, in order
  stream,       \* Readable.from(entryItemIterator()): status and error
  returned,     \* the stream createTarPacker returned: status and error
  recs,         \* per packed entry: offset of its header, bytes forwarded, end
  input,        \* the chunks of the stream handed to createTarExtractor
  cur,          \* createBufferedAsyncIterator: chunks taken, put-back buffer
  ex,           \* createTarExtractor: status and error of the iteration
  yielded,      \* the entries the extractor has yielded, with their header state
  readables,    \* the streams getContent('readable') has returned
  last,         \* the most recent getContent call and its outcome
  skip,         \* the most recent auto-skip: entry, cursor offset before and after
  overlapped,   \* a reader has used the cursor while a content stream was undrained
  damage,       \* how the stream handed to the extractor differs from the archive
  reads,        \* the results of the readExactBytes calls made on the cursor directly
  halfDrained,  \* next() was called while a readable was partly drained
  hdr,          \* one header: the arguments, the split path, the block, its decoding
  mk            \* one call of a file-item helper: arguments, chunks collected, result

packVars == <<entries, genThrows, compression, aborted, pk, out, stream, returned, recs>>

extVars ==
  <<input, cur, ex, yielded, readables, last, skip, overlapped, damage, reads, halfDrained, hdr, mk>>

vars ==
  <<entries, genThrows, compression, aborted, pk, out, stream, returned, recs,
    input, cur, ex, yielded, readables, last, skip, overlapped, damage, reads, halfDrained, hdr, mk>>

(***************************************************************************)
(* createTarPacker                                                         *)
(***************************************************************************)
Open == [status |-> "open", error |-> "none"]

\* what the returned stream shows for a state of the inner stream.  With
\* 'none' it is the inner stream.  With 'gzip' the inner stream is piped into
\* the gzip stream: pipe() ends the destination when the source ends and
\* leaves it open when the source fails.
returnedStream(ct, inner) ==
  IF ct = "none" THEN inner
  ELSE IF inner.status = "ended" THEN [status |-> "ended", error |-> "none"]
  ELSE Open

\* no header under study
NoHeader == [step |-> "none"]

\* no helper call under study
NoCall == [pc |-> "none"]

Init ==
  /\ entries \in EntrySeqs
  /\ genThrows \in BOOLEAN
  /\ compression \in {"none", "gzip"}
  /\ aborted = FALSE
  /\ pk = [pc |-> "next", idx |-> 0, chunk |-> 0, position |-> 0]
  /\ out = << >>
  /\ stream = Open
  /\ returned = Open
  /\ recs = << >>
  /\ input = << >>
  /\ cur = [taken |-> 0, buffer |-> << >>]
  /\ ex = [status |-> "idle", error |-> "none"]
  /\ yielded = << >>
  /\ readables = << >>
  /\ last = [n |-> 0, entry |-> 0, result |-> "none"]
  /\ skip = [entry |-> 0, from |-> 0, to |-> 0]
  /\ overlapped = FALSE
  /\ damage = [kind |-> "none", at |-> 0, value |-> 0]
  /\ reads = << >>
  /\ halfDrained = FALSE
  /\ hdr = NoHeader
  /\ mk = NoCall

\* a throw inside the generator destroys the stream with that error
Throw(error) ==
  /\ pk' = [pk EXCEPT !.pc = "done"]
  /\ stream' = [status |-> "failed", error |-> error]
  /\ returned' = returnedStream(compression, stream')
  /\ UNCHANGED <<out, recs>>

Yield(chunk, pc) ==
  /\ out' = Append(out, chunk)
  /\ pk' = [pk EXCEPT !.pc = pc]
  /\ UNCHANGED <<stream, returned>>

HeaderOf(item, size) ==
  createTarHeader(item.kind, item.path, size, item.mode, item.uname, item.gname,
                  item.uid, item.gid, item.date)

\* for await (const entryItem of entryItemGenerator): the next item arrives
PackEntry ==
  /\ pk.pc = "next" /\ pk.idx < Len(entries)
  /\ LET item == entries[pk.idx + 1]
         rec == [at |-> TotalLen(out), n |-> 0, end |-> 0 - 1]
     IN  IF aborted THEN Throw("abort")
         ELSE
           /\ out' = Append(out, HeaderOf(item, DeclaredSize(item)))
           /\ pk' = [pc |-> IF item.kind = "directory" THEN "next"
                            ELSE IF item.content.kind \in {"string", "buffer"}
                              THEN "inline" ELSE "source",
                     idx |-> pk.idx + 1, chunk |-> 0, position |-> 0]
           /\ recs' = Append(recs, IF item.kind = "directory"
                                     THEN [rec EXCEPT !.end = TotalLen(out')]
                                     ELSE rec)
           /\ UNCHANGED <<stream, returned>>
  /\ UNCHANGED <<entries, genThrows, compression, aborted>>
  /\ UNCHANGED extVars

\* yield totalPaddedContentBytes
PackInlineContent ==
  /\ pk.pc = "inline"
  /\ LET contentBytes == ContentBytes(entries[pk.idx])
     IN  /\ Yield(getPaddedBytes(contentBytes), "next")
         /\ recs' = [recs EXCEPT ![pk.idx] =
                       [@ EXCEPT !.n = Len(contentBytes), !.end = TotalLen(out')]]
  /\ UNCHANGED <<entries, genThrows, compression, aborted>>
  /\ UNCHANGED extVars

\* for await (const contentBytes of content.generator / content.readable)
PackSourceChunk ==
  /\ pk.pc = "source" /\ pk.chunk < Len(entries[pk.idx].content.chunks)
  /\ LET contentBytes == getBuffer(FALSE, entries[pk.idx].content.chunks[pk.chunk + 1])
     IN  IF aborted THEN Throw("abort")
         ELSE
           /\ out' = Append(out, contentBytes)
           /\ pk' = [pk EXCEPT !.chunk = @ + 1, !.position = @ + Len(contentBytes)]
           /\ recs' = [recs EXCEPT ![pk.idx].n = @ + Len(contentBytes)]
           /\ UNCHANGED <<stream, returned>>
  /\ UNCHANGED <<entries, genThrows, compression, aborted>>
  /\ UNCHANGED extVars

\* the content source raises an error
PackSourceThrows ==
  /\ pk.pc = "source" /\ pk.chunk = Len(entries[pk.idx].content.chunks)
  /\ entries[pk.idx].content.fails
  /\ Throw("content")
  /\ UNCHANGED <<entries, genThrows, compression, aborted>>
  /\ UNCHANGED extVars

\* The padding computed from the declared length instead of the position.
declaredPadding(declared, position) ==
  IF declared % BLOCK # 0 THEN BLOCK - (declared % BLOCK) ELSE 0

\* the padding the packer adds after the chunks of a content source
sourcePadding(declared, position) ==
  IF position % BLOCK # 0 THEN BLOCK - (position % BLOCK) ELSE 0

\* the content source is exhausted: padding space
PackSourceDone ==
  /\ pk.pc = "source" /\ pk.chunk = Len(entries[pk.idx].content.chunks)
  /\ ~entries[pk.idx].content.fails
  /\ LET padding == sourcePadding(entries[pk.idx].content.length, pk.position)
     IN  IF padding = 0
           THEN /\ pk' = [pk EXCEPT !.pc = "next"]
                /\ recs' = [recs EXCEPT ![pk.idx].end = TotalLen(out)]
                /\ UNCHANGED <<out, stream, returned>>
         ELSE IF aborted THEN Throw("abort")
         ELSE /\ Yield(Zeros(padding), "next")
              /\ recs' = [recs EXCEPT ![pk.idx].end = TotalLen(out')]
  /\ UNCHANGED <<entries, genThrows, compression, aborted>>
  /\ UNCHANGED extVars

\* entryItemGenerator raises an error
PackGeneratorThrows ==
  /\ pk.pc = "next" /\ pk.idx = Len(entries) /\ genThrows
  /\ Throw("generator")
  /\ UNCHANGED <<entries, genThrows, compression, aborted>>
  /\ UNCHANGED extVars

\* entryItemGenerator is exhausted: yield terminatorBytes
PackTerminator ==
  /\ pk.pc = "next" /\ pk.idx = Len(entries) /\ ~genThrows
  /\ Yield(terminatorBytes, "term")
  /\ UNCHANGED <<entries, genThrows, compression, aborted, recs>>
  /\ UNCHANGED extVars

\* entryItemIterator returns: the stream ends
PackEnd ==
  /\ pk.pc = "term"
  /\ pk' = [pk EXCEPT !.pc = "done"]
  /\ stream' = [status |-> "ended", error |-> "none"]
  /\ returned' = returnedStream(compression, stream')
  /\ UNCHANGED <<entries, genThrows, compression, aborted, out, recs>>
  /\ UNCHANGED extVars

\* the caller signals the AbortSignal
Abort ==
  /\ ~aborted
  /\ pk.pc # "done"
  /\ aborted' = TRUE
  /\ UNCHANGED <<entries, genThrows, compression, pk, out, stream, returned, recs>>
  /\ UNCHANGED extVars

(***************************************************************************)
(* The extractor.  The stream handed to createTarExtractor is the sequence *)
(* of chunks `input`; createBufferedAsyncIterator is the pair of the       *)
(* number of chunks taken from it and the put-back buffer.                 *)
(***************************************************************************)
Pos(inp, c) == TotalLen(Take(inp, c.taken)) - TotalLen(c.buffer)

\* next() going to the source whatever the buffer holds.
iteratorNextFromSource(inp, c) ==
  IF c.taken < Len(inp)
    THEN [cur |-> [c EXCEPT !.taken = @ + 1], done |-> FALSE, value |-> inp[c.taken + 1]]
    ELSE [cur |-> c, done |-> TRUE, value |-> << >>]

iteratorNext(inp, c) ==
  IF c.buffer # << >>
    THEN [cur |-> [c EXCEPT !.buffer = Tail(@)], done |-> FALSE, value |-> Head(c.buffer)]
    ELSE IF c.taken < Len(inp)
      THEN [cur |-> [c EXCEPT !.taken = @ + 1], done |-> FALSE, value |-> inp[c.taken + 1]]
      ELSE [cur |-> c, done |-> TRUE, value |-> << >>]

\* iterator.return losing the bytes handed back.
iteratorReturnDropped(c, value) == c

iteratorReturn(c, value) == [c EXCEPT !.buffer = <<value>> \o @]

\* The loop of readExactBytes: "ok" with the bytes, "none" for the undefined
\* result (stream ended before the first byte), "eof" for 'Unexpected end of
\* stream', "abort" for the signal's error.
RECURSIVE readLoop(_, _, _, _, _, _)
readLoop(inp, c, size, ab, chunks, totalRead) ==
  IF totalRead >= size
    THEN [cur |-> c, tag |-> "ok", data |-> chunks]
    ELSE IF ab
      THEN [cur |-> c, tag |-> "abort", data |-> << >>]
      ELSE LET r == iteratorNext(inp, c)
               chunk == getBuffer(FALSE, r.value)
               needed == size - totalRead
           IN  IF r.done
                 THEN [cur |-> r.cur, tag |-> IF totalRead = 0 THEN "none" ELSE "eof",
                       data |-> << >>]
                 ELSE IF Len(chunk) <= needed
                   THEN readLoop(inp, r.cur, size, ab, chunks \o chunk,
                                 totalRead + Len(chunk))
                   ELSE readLoop(inp, iteratorReturn(r.cur, Drop(chunk, needed)), size, ab,
                                 chunks \o Take(chunk, needed), size)

\* readExactBytes handing out what it has when the source ends early.
readAvailableBytes(inp, c, size, ab) ==
  LET r == readLoop(inp, c, size, ab, << >>, 0)
  IN  IF r.tag = "eof" THEN [r EXCEPT !.tag = "ok"] ELSE r

readExactBytes(inp, c, size, ab) == readLoop(inp, c, size, ab, << >>, 0)

\* No padding behind any content.
noPadding(contentSize) == 0

paddingTo512(contentSize) == (BLOCK - (contentSize % BLOCK)) % BLOCK

\* The skip that reads nothing.
skipNothing(inp, c, contentSize, ab) == [cur |-> c, tag |-> "ok"]

\* The result of readExactBytes is not looked at: only its errors propagate.
skipPaddingBytesTo512Boundary(inp, c, contentSize, ab) ==
  LET padding == paddingTo512(contentSize)
      r == readExactBytes(inp, c, padding, ab)
  IN  IF padding > 0
        THEN [cur |-> r.cur, tag |-> IF r.tag \in {"eof", "abort"} THEN r.tag ELSE "ok"]
        ELSE [cur |-> c, tag |-> "ok"]

\* "Read entire contents just now" and "Finalize to skip boundary": the
\* sequence shared by the auto-skip and by getContent('string' | 'buffer').
paddingSkipped(d, p) == [cur |-> p.cur, tag |-> p.tag, data |-> d.data]

\* The same without the test for the undefined result.
dataReadUnchecked(inp, size, ab, d) ==
  IF d.tag \notin {"ok", "none"} THEN d
  ELSE paddingSkipped(d, skipPaddingBytesTo512Boundary(inp, d.cur, size, ab))

dataRead(inp, size, ab, d) ==
  IF d.tag = "none" THEN [cur |-> d.cur, tag |-> "eof", data |-> << >>]
  ELSE IF d.tag # "ok" THEN d
  ELSE paddingSkipped(d, skipPaddingBytesTo512Boundary(inp, d.cur, size, ab))

readFileData(inp, c, size, ab) == dataRead(inp, size, ab, readExactBytes(inp, c, size, ab))

ErrorOf(tag) == IF tag = "abort" THEN "AbortError" ELSE "Unexpected end of stream"

\* The item createTarExtractor yields for a parsed header, with the state of
\* the header object its getContent closes over (size, consumed), the offset
\* the header was read at, what getContent has returned for it, and the
\* number of bytes taken from the cursor for its content and padding.
Yielded(h, at) ==
  [kind |-> h.kind, path |-> h.path, mode |-> h.mode, uid |-> h.uid, gid |-> h.gid,
   uname |-> h.uname, gname |-> h.gname, date |-> h.mtime,
   size |-> h.size, consumed |-> FALSE, at |-> at, calls |-> 0, taken |-> 0,
   content |-> [mode |-> "none", data |-> << >>]]

Failed(c, ys, sk, error) ==
  [cur |-> c, yielded |-> ys, skip |-> sk, ex |-> [status |-> "failed", error |-> error]]

Finished(c, ys, sk) ==
  [cur |-> c, yielded |-> ys, skip |-> sk, ex |-> [status |-> "done", error |-> "none"]]

\* The check for the second terminator block, given what reading it gave.
secondTerminator(ys, sk, secondBlock) ==
  IF secondBlock.tag = "none" \/ (secondBlock.tag = "ok" /\ AllZero(secondBlock.data))
    THEN Finished(secondBlock.cur, ys, sk)
    ELSE IF secondBlock.tag \in {"eof", "abort"}
      THEN Failed(secondBlock.cur, ys, sk, ErrorOf(secondBlock.tag))
      ELSE Failed(secondBlock.cur, ys, sk, "Invalid tar format: expected terminator block")

\* From the parsed header to the yield, the end of the archive or the throw.
\* `at` is the offset the header block was read at, c the cursor behind it.
headerParsed(inp, c, ys, sk, ab, at, header) ==
  IF header.tag = "error" THEN Failed(c, ys, sk, header.error)
  ELSE IF header.tag = "end"
    THEN secondTerminator(ys, sk, readExactBytes(inp, c, BLOCK, ab))
    ELSE [cur |-> c, yielded |-> Append(ys, Yielded(header, at)), skip |-> sk,
          ex |-> [status |-> "running", error |-> "none"]]

\* From the header block that was read (or not) to the parsed header.
headerRead(inp, ys, sk, ab, at, headerBuffer) ==
  IF headerBuffer.tag = "eof"
    THEN Failed(headerBuffer.cur, ys, sk, "Invalid tar format: incomplete header")
  ELSE IF headerBuffer.tag = "abort" THEN Failed(headerBuffer.cur, ys, sk, "AbortError")
  ELSE IF headerBuffer.tag = "none" THEN Finished(headerBuffer.cur, ys, sk)
  ELSE headerParsed(inp, headerBuffer.cur, ys, sk, ab, at,
                    parseTarHeader(headerBuffer.data))

\* The header block parsed where it lies, the cursor left before it.
readHeaderInPlace(inp, c, ys, sk, ab) ==
  headerRead(inp, ys, sk, ab, Pos(inp, c),
             [readExactBytes(inp, c, BLOCK, ab) EXCEPT !.cur = c])

\* "Read header (512 bytes)" with the cursor at c.
readHeader(inp, c, ys, sk, ab) ==
  headerRead(inp, ys, sk, ab, Pos(inp, c), readExactBytes(inp, c, BLOCK, ab))

\* The auto-skip without "Mark consumed".
autoSkippedUnmarked(inp, c, ys, sk, ab, s) ==
  IF s.tag # "ok" THEN Failed(s.cur, ys, sk, ErrorOf(s.tag))
  ELSE readHeader(inp, s.cur,
                  [ys EXCEPT ![Len(ys)].taken = @ + Pos(inp, s.cur) - Pos(inp, c)],
                  [entry |-> Len(ys), from |-> Pos(inp, c), to |-> Pos(inp, s.cur)], ab)

\* The auto-skip of the last yielded file, given what reading its data and
\* padding gave: the header is marked consumed only when neither threw.
autoSkipped(inp, c, ys, sk, ab, s) ==
  IF s.tag # "ok" THEN Failed(s.cur, ys, sk, ErrorOf(s.tag))
  ELSE readHeader(inp, s.cur,
                  [ys EXCEPT ![Len(ys)].consumed = TRUE,
                             ![Len(ys)].taken = @ + Pos(inp, s.cur) - Pos(inp, c)],
                  [entry |-> Len(ys), from |-> Pos(inp, c), to |-> Pos(inp, s.cur)], ab)

\* The resumption without the auto-skip.
extractorStepNoSkip(inp, c, ys, sk, ab) ==
  IF ab THEN Failed(c, ys, sk, "AbortError") ELSE readHeader(inp, c, ys, sk, ab)

\* The resumption without any look at the signal.
extractorStepUnchecked(inp, c, ys, sk, ab) ==
  IF ys # << >> /\ ys[Len(ys)].kind = "file" /\ ~ys[Len(ys)].consumed
    THEN autoSkipped(inp, c, ys, sk, FALSE, readFileData(inp, c, ys[Len(ys)].size, FALSE))
    ELSE readHeader(inp, c, ys, sk, FALSE)

\* One resumption of the generator createTarExtractor: from the top of its
\* loop to the next yield, to the end of the iteration, or to a throw.
extractorStep(inp, c, ys, sk, ab) ==
  IF ab THEN Failed(c, ys, sk, "AbortError")
  ELSE IF ys # << >> /\ ys[Len(ys)].kind = "file" /\ ~ys[Len(ys)].consumed
    THEN autoSkipped(inp, c, ys, sk, ab, readFileData(inp, c, ys[Len(ys)].size, ab))
    ELSE readHeader(inp, c, ys, sk, ab)

\* The prefix of a chunk sequence holding its first n bytes.
RECURSIVE Truncate(_, _)
Truncate(chunks, n) ==
  IF chunks = << >> \/ n <= 0 THEN << >>
  ELSE IF Len(Head(chunks)) <= n
    THEN <<Head(chunks)>> \o Truncate(Tail(chunks), n - Len(Head(chunks)))
    ELSE <<Take(Head(chunks), n)>>

\* Where the stream handed to the extractor may end: after the whole archive,
\* or right after the data of its last file when that data is followed by
\* padding, or one byte into that padding.
CutPoints ==
  LET n == Len(recs)
      dataEnd == recs[n].at + BLOCK + recs[n].n
  IN  {TotalLen(out)} \cup
      (IF n > 0 /\ entries[n].kind = "file" /\ recs[n].n % BLOCK # 0
         THEN {dataEnd, dataEnd + 1}
         ELSE {})

\* The consumer hands the packer's finished, uncompressed stream to
\* createTarExtractor (chunk by chunk as produced, or coalesced into one chunk
\* as a transport may deliver it) and asks for the first entry.
ExtStart ==
  /\ ex.status = "idle"
  /\ compression = "none"
  /\ returned.status = "ended"
  /\ \E cut \in CutPoints, whole \in BOOLEAN :
       input' = IF whole THEN <<Flatten(Truncate(out, cut))>> ELSE Truncate(out, cut)
  /\ ex' = [status |-> "running", error |-> "none"]
  /\ UNCHANGED <<cur, yielded, readables, last, skip, overlapped, damage, reads, halfDrained, hdr, mk>>
  /\ UNCHANGED packVars

\* Some stream returned by getContent('readable'), other than the r-th, has
\* not finished: the protocol gives it the cursor until it is drained.
Busy(r) ==
  \E q \in 1..Len(readables) : q # r /\ readables[q].status \in {"new", "flowing"}

\* The consumer asks for the next entry.
ExtNext ==
  /\ ex.status = "running"
  /\ LET r == extractorStep(input, cur, yielded, skip, aborted)
     IN  /\ cur' = r.cur
         /\ yielded' = r.yielded
         /\ skip' = r.skip
         /\ ex' = r.ex
  /\ overlapped' = (overlapped \/ Busy(0))
  /\ halfDrained' = (halfDrained
                       \/ \E r \in 1..Len(readables) : readables[r].status = "flowing")
  /\ UNCHANGED <<input, readables, last, damage, reads, hdr, mk>>
  /\ UNCHANGED packVars

\* A generator that starts over at the block behind the one that ended it.
nextResumes(inp, c, ys, sk, e) == readHeader(inp, c, ys, sk, FALSE)

\* next() on the generator after it has thrown or returned: the body does
\* not run again
nextAfterEnd(inp, c, ys, sk, e) == [cur |-> c, yielded |-> ys, skip |-> sk, ex |-> e]

\* The consumer calls next() once more after the iteration has ended.
ExtNextEnded ==
  /\ ex.status \in {"failed", "done"}
  /\ last.result # "done"
  /\ LET r == nextAfterEnd(input, cur, yielded, skip, ex)
     IN  /\ cur' = r.cur
         /\ yielded' = r.yielded
         /\ skip' = r.skip
         /\ ex' = r.ex
  /\ last' = [n |-> last.n, entry |-> 0, result |-> "done"]
  /\ UNCHANGED <<input, readables, overlapped, damage, reads, halfDrained, hdr, mk>>
  /\ UNCHANGED packVars

ContentModes == {"string", "buffer", "readable"}

Called(i, result) == [n |-> last.n + 1, entry |-> i, result |-> result]

\* The throw placed behind the read of the content.
contentConsumedAfterRead(i) ==
  /\ last' = Called(i, "consumed")
  /\ yielded' = [yielded EXCEPT ![i].calls = @ + 1]
  /\ cur' = readFileData(input, cur, yielded[i].size, aborted).cur
  /\ UNCHANGED <<readables, overlapped>>

\* getContent on a header that is marked consumed: it throws 'Content has
\* already been consumed' before anything else.
contentConsumed(i) ==
  /\ last' = Called(i, "consumed")
  /\ yielded' = [yielded EXCEPT ![i].calls = @ + 1]
  /\ UNCHANGED <<cur, readables, overlapped>>

\* getContent of the i-th yielded entry, awaited by the consumer.
GetContent(i, mode) ==
  /\ ex.status # "idle"
  /\ last.n < MaxCalls
  /\ i \in 1..Len(yielded)
  /\ yielded[i].kind = "file"
  /\ IF yielded[i].consumed
       THEN contentConsumed(i)
       ELSE IF mode = "readable"
         THEN /\ readables' = Append(readables,
                   [entry |-> i, remaining |-> yielded[i].size, status |-> "new",
                    error |-> "none", data |-> << >>])
              /\ last' = Called(i, "ok")
              /\ yielded' = [yielded EXCEPT ![i].calls = @ + 1]
              /\ UNCHANGED <<cur, overlapped>>
         ELSE LET r == readFileData(input, cur, yielded[i].size, aborted)
                  value == IF mode = "string" THEN Utf8Decode(r.data) ELSE r.data
                  taken == Pos(input, r.cur) - Pos(input, cur)
              IN  /\ cur' = r.cur
                  /\ yielded' = IF r.tag = "ok"
                                  THEN [yielded EXCEPT ![i].calls = @ + 1,
                                          ![i].consumed = TRUE,
                                          ![i].taken = @ + taken,
                                          ![i].content = [mode |-> mode, data |-> value]]
                                  ELSE [yielded EXCEPT ![i].calls = @ + 1,
                                                       ![i].taken = @ + taken]
                  /\ last' = Called(i, r.tag)
                  /\ overlapped' = (overlapped \/ Busy(0))
                  /\ UNCHANGED readables
  /\ UNCHANGED <<input, ex, skip, damage, reads, halfDrained, hdr, mk>>
  /\ UNCHANGED packVars

\* One resumption of the generator behind the r-th stream returned by
\* getContent('readable'): it forwards one chunk, or, with no bytes
\* remaining, skips the padding, marks the header consumed and ends.
ReadablePull(r) ==
  /\ r \in 1..Len(readables)
  /\ readables[r].status \in {"new", "flowing"}
  /\ LET rd == readables[r]
         size == yielded[rd.entry].size
         nx == iteratorNext(input, cur)
         chunk == getBuffer(FALSE, nx.value)
         p == skipPaddingBytesTo512Boundary(input, cur, size, aborted)
         skipped == Pos(input, p.cur) - Pos(input, cur)
     IN  IF aborted
           THEN /\ readables' = [readables EXCEPT ![r].status = "failed",
                                                      ![r].error = "AbortError"]
                /\ UNCHANGED <<cur, yielded>>
         ELSE IF rd.remaining > 0
           THEN IF nx.done
                  THEN /\ readables' = [readables EXCEPT ![r].status = "failed",
                                            ![r].error = "Unexpected end of stream"]
                       /\ cur' = nx.cur
                       /\ UNCHANGED yielded
                  ELSE IF Len(chunk) <= rd.remaining
                    THEN /\ readables' = [readables EXCEPT ![r].status = "flowing",
                                            ![r].remaining = @ - Len(chunk),
                                            ![r].data = @ \o chunk]
                         /\ cur' = nx.cur
                         /\ yielded' = [yielded EXCEPT ![rd.entry].taken = @ + Len(chunk)]
                    ELSE /\ readables' = [readables EXCEPT ![r].status = "flowing",
                                            ![r].remaining = 0,
                                            ![r].data = @ \o Take(chunk, rd.remaining)]
                         /\ cur' = iteratorReturn(nx.cur, Drop(chunk, rd.remaining))
                         /\ yielded' = [yielded EXCEPT ![rd.entry].taken = @ + rd.remaining]
           ELSE /\ cur' = p.cur
                /\ IF p.tag = "ok"
                     THEN /\ yielded' = [yielded EXCEPT ![rd.entry].consumed = TRUE,
                                                         ![rd.entry].taken = @ + skipped]
                          /\ readables' = [readables EXCEPT ![r].status = "ended"]
                     ELSE /\ readables' = [readables EXCEPT ![r].status = "failed",
                                               ![r].error = ErrorOf(p.tag)]
                          /\ yielded' = [yielded EXCEPT ![rd.entry].taken = @ + skipped]
  /\ overlapped' = (overlapped \/ Busy(r))
  /\ UNCHANGED <<input, ex, last, skip, damage, reads, halfDrained, hdr, mk>>
  /\ UNCHANGED packVars

PackNext ==
  \/ PackEntry
  \/ PackInlineContent
  \/ PackSourceChunk
  \/ PackSourceThrows
  \/ PackSourceDone
  \/ PackGeneratorThrows
  \/ PackTerminator
  \/ PackEnd
  \/ Abort

\* Packing alone: every entry of the pool, both compression types, a failing
\* entry generator, an abort at any point.
SpecPack == Init /\ [][PackNext]_vars

\* Archives of well-behaved entries, in the order of RoundTripPool.
RoundTripPool == <<FileHello, DirMy, File512, FileGen513, FileEmpty, DirLong>>

RoundTripSeqs ==
  {[k \in 1..Len(ix) |-> RoundTripPool[ix[k]]] :
     ix \in {jx \in UNION {[1..n -> 1..Len(RoundTripPool)] : n \in 0..MaxEntries} :
               \A a, b \in 1..Len(jx) : a < b => jx[a] < jx[b]}}

RoundTripInit ==
  /\ Init
  /\ entries \in RoundTripSeqs
  /\ \A i \in 1..Len(entries) : Accurate(entries[i])
  /\ ~genThrows
  /\ compression = "none"

Next ==
  \/ PackEntry
  \/ PackInlineContent
  \/ PackSourceChunk
  \/ PackSourceDone
  \/ PackTerminator
  \/ PackEnd
  \/ ExtStart
  \/ ExtNext
  \/ \E i \in 1..MaxEntries, mode \in ContentModes : GetContent(i, mode)
  \/ \E r \in 1..MaxCalls : ReadablePull(r)

\* Packing an archive and extracting the stream it produced.
Spec == RoundTripInit /\ [][Next]_vars

(***************************************************************************)
(* Extraction of a stream that was damaged on its way: one byte of a       *)
(* header field overwritten, or the stream cut short.                      *)
(***************************************************************************)
DamagedSeqs == {<<FileHello>>, <<DirMy, FileHello>>, <<FileGen513, DirMy>>}

\* the checksum field and the magic field of a header block
ChecksumField == 148..155

MagicField == 257..262

\* NUL, space, '0', '8' and 0xFF
DamageBytes == {0, 32, 48, 56, 255}

\* the offset the terminator starts at in the packed archive
TerminatorAt == TotalLen(out) - TERMINATOR_LENGTH

\* One byte of the checksum or magic field of some header overwritten with
\* another value, or the last byte of the terminator set to 1.
ByteDamages ==
  {d \in {[kind |-> "byte", at |-> recs[k].at + o, value |-> v] :
            k \in 1..Len(recs), o \in ChecksumField \cup MagicField, v \in DamageBytes} :
     Flatten(out)[d.at + 1] # d.value}
  \cup {[kind |-> "byte", at |-> TotalLen(out) - 1, value |-> 1]}

\* Where the stream is cut: inside a header block, inside the content of a
\* file, at the end of the records, and inside or between the terminator blocks.
CutDamages ==
  {[kind |-> "cut", at |-> n, value |-> 0] :
     n \in UNION {{recs[k].at + 1, recs[k].at + BLOCK - 1}
                    \cup {recs[k].at + BLOCK + j : j \in {0, 1, recs[k].n - 1} \cap (0..(recs[k].n - 1))} :
                  k \in 1..Len(recs)}
           \cup {TerminatorAt, TerminatorAt + 1, TerminatorAt + BLOCK - 1, TerminatorAt + BLOCK,
                 TerminatorAt + BLOCK + 1, TerminatorAt + TERMINATOR_LENGTH - 1}}

Damages == {[kind |-> "none", at |-> 0, value |-> 0]} \cup ByteDamages \cup CutDamages

\* The chunks with the byte at offset `at` overwritten.
RECURSIVE Overwrite(_, _, _)
Overwrite(chunks, at, value) ==
  IF chunks = << >> THEN << >>
  ELSE IF at < Len(Head(chunks))
    THEN <<[Head(chunks) EXCEPT ![at + 1] = value]>> \o Tail(chunks)
    ELSE <<Head(chunks)>> \o Overwrite(Tail(chunks), at - Len(Head(chunks)), value)

Damaged(chunks, d) ==
  IF d.kind = "byte" THEN Overwrite(chunks, d.at, d.value)
  ELSE IF d.kind = "cut" THEN Truncate(chunks, d.at)
  ELSE chunks

\* The consumer hands createTarExtractor a damaged copy of the packer's
\* finished stream and asks for the first entry.
ExtStartDamaged ==
  /\ ex.status = "idle"
  /\ compression = "none"
  /\ returned.status = "ended"
  /\ \E d \in Damages, whole \in BOOLEAN :
       /\ damage' = d
       /\ input' = IF whole THEN <<Flatten(Damaged(out, d))>> ELSE Damaged(out, d)
  /\ ex' = [status |-> "running", error |-> "none"]
  /\ UNCHANGED <<cur, yielded, readables, last, skip, overlapped, reads, halfDrained, hdr, mk>>
  /\ UNCHANGED packVars

DamagedInit ==
  /\ Init
  /\ entries \in DamagedSeqs
  /\ ~genThrows
  /\ compression = "none"

DamagedNext ==
  \/ PackEntry
  \/ PackInlineContent
  \/ PackSourceChunk
  \/ PackSourceDone
  \/ PackTerminator
  \/ PackEnd
  \/ ExtStartDamaged
  \/ ExtNext
  \/ ExtNextEnded
  \/ \E i \in 1..MaxEntries, mode \in ContentModes : GetContent(i, mode)
  \/ \E r \in 1..MaxCalls : ReadablePull(r)

\* Packing an archive and extracting a damaged copy of the stream.
SpecDamaged == DamagedInit /\ [][DamagedNext]_vars

\* Packing an archive and extracting the stream, whole or cut short, by a
\* consumer that keeps calling next() for as long as the iteration has not
\* ended: weak fairness of ExtNext, WF_vars(ExtNext), written with the
\* condition under which ExtNext is enabled, ex.status = "running".
SpecKeepsCalling ==
  Spec /\ ([]<>(ex.status # "running") \/ []<><<ExtNext>>_vars)

(***************************************************************************)
(* Extraction with an AbortSignal that the consumer signals at some point. *)
(***************************************************************************)
AbortSeqs == {<<FileHello, DirMy>>, <<FileGen513, FileHello>>, <<FileEmpty, File512>>}

\* the consumer signals the AbortSignal given to createTarExtractor
ExtAbort ==
  /\ ex.status # "idle"
  /\ ~aborted
  /\ aborted' = TRUE
  /\ UNCHANGED <<entries, genThrows, compression, pk, out, stream, returned, recs>>
  /\ UNCHANGED extVars

AbortInit ==
  /\ Init
  /\ entries \in AbortSeqs
  /\ ~genThrows
  /\ compression = "none"

AbortNext ==
  \/ PackEntry
  \/ PackInlineContent
  \/ PackSourceChunk
  \/ PackSourceDone
  \/ PackTerminator
  \/ PackEnd
  \/ ExtStart
  \/ ExtNext
  \/ \E i \in 1..MaxEntries, mode \in ContentModes : GetContent(i, mode)
  \/ \E r \in 1..MaxCalls : ReadablePull(r)
  \/ ExtAbort

\* Packing an archive and extracting it under a signal that may be signaled.
SpecAbort == AbortInit /\ [][AbortNext]_vars

(***************************************************************************)
(* readExactBytes on its own: a source of bytes split into chunks in every *)
(* way, read by a sequence of exact reads.                                 *)
(***************************************************************************)
SourceLen == 5

MaxRead == 3

MaxReads == 3

\* every way to split the bytes b into consecutive non-empty chunks
RECURSIVE Chunkings(_)
Chunkings(b) ==
  IF b = << >> THEN {<< >>}
  ELSE UNION {{<<Take(b, k)>> \o rest : rest \in Chunkings(Drop(b, k))} : k \in 1..Len(b)}

\* sources of 0..SourceLen bytes, each byte its own value
Sources == UNION {Chunkings([i \in 1..n |-> i]) : n \in 0..SourceLen}

ReadInit ==
  /\ entries = << >>
  /\ genThrows = FALSE
  /\ compression = "none"
  /\ aborted = FALSE
  /\ pk = [pc |-> "next", idx |-> 0, chunk |-> 0, position |-> 0]
  /\ out = << >>
  /\ stream = Open
  /\ returned = Open
  /\ recs = << >>
  /\ input \in Sources
  /\ cur = [taken |-> 0, buffer |-> << >>]
  /\ ex = [status |-> "idle", error |-> "none"]
  /\ yielded = << >>
  /\ readables = << >>
  /\ last = [n |-> 0, entry |-> 0, result |-> "none"]
  /\ skip = [entry |-> 0, from |-> 0, to |-> 0]
  /\ overlapped = FALSE
  /\ damage = [kind |-> "none", at |-> 0, value |-> 0]
  /\ reads = << >>
  /\ halfDrained = FALSE
  /\ hdr = NoHeader
  /\ mk = NoCall

\* readExactBytes(iterator, size, signal) on the buffered iterator
ReadExact(size) ==
  /\ Len(reads) < MaxReads
  /\ LET r == readExactBytes(input, cur, size, aborted)
     IN  /\ cur' = r.cur
         /\ reads' = Append(reads, [size |-> size, at |-> Pos(input, cur),
                                    tag |-> r.tag, data |-> r.data])
  /\ UNCHANGED <<input, ex, yielded, readables, last, skip, overlapped, damage, halfDrained, hdr, mk>>
  /\ UNCHANGED packVars

ReadNext == \E size \in 0..MaxRead : ReadExact(size)

SpecRead == ReadInit /\ [][ReadNext]_vars

(***************************************************************************)
(* The buffered iterator under readExactBytes calls that are not awaited:  *)
(* a call is suspended between its iterator.next() and the resumption that *)
(* looks at the chunk, and other calls run in between.  `reads` holds the  *)
(* calls, `overlapped` tells that a pull was made while another call was   *)
(* suspended.                                                              *)
(***************************************************************************)
MidRead(k) == reads[k].tag = "pulled"

\* readExactBytes is called: it runs to its first await, the iterator.next()
ReadCall(size) ==
  /\ Len(reads) < MaxReads
  /\ LET nx == iteratorNext(input, cur)
         call == [size |-> size, at |-> Pos(input, cur), tag |-> "ok", data |-> << >>,
                  value |-> << >>, done |-> FALSE]
     IN  IF size = 0
           THEN /\ reads' = Append(reads, call)
                /\ UNCHANGED <<cur, overlapped>>
           ELSE /\ reads' = Append(reads, [call EXCEPT !.tag = "pulled",
                                                       !.value = nx.value, !.done = nx.done])
                /\ cur' = nx.cur
                /\ overlapped' = (overlapped \/ \E j \in 1..Len(reads) : MidRead(j))
  /\ UNCHANGED <<input, ex, yielded, readables, last, skip, damage, halfDrained, hdr, mk>>
  /\ UNCHANGED packVars

\* the k-th call resumes with the result of its iterator.next() and runs to
\* its next iterator.next(), to its return or to its throw
ReadResume(k) ==
  /\ k \in 1..Len(reads)
  /\ MidRead(k)
  /\ LET rd == reads[k]
         chunk == getBuffer(FALSE, rd.value)
         needed == rd.size - Len(rd.data)
         nx == iteratorNext(input, cur)
     IN  IF rd.done
           THEN /\ reads' = [reads EXCEPT ![k].tag = IF Len(rd.data) = 0 THEN "none" ELSE "eof"]
                /\ UNCHANGED <<cur, overlapped>>
         ELSE IF Len(chunk) < needed
           THEN /\ reads' = [reads EXCEPT ![k].data = @ \o chunk,
                                          ![k].value = nx.value, ![k].done = nx.done]
                /\ cur' = nx.cur
                /\ overlapped' = (overlapped \/ \E j \in 1..Len(reads) : j # k /\ MidRead(j))
         ELSE IF Len(chunk) = needed
           THEN /\ reads' = [reads EXCEPT ![k].data = @ \o chunk, ![k].tag = "ok"]
                /\ UNCHANGED <<cur, overlapped>>
           ELSE /\ reads' = [reads EXCEPT ![k].data = @ \o Take(chunk, needed), ![k].tag = "ok"]
                /\ cur' = iteratorReturn(cur, Drop(chunk, needed))
                /\ UNCHANGED overlapped
  /\ UNCHANGED <<input, ex, yielded, readables, last, skip, damage, halfDrained, hdr, mk>>
  /\ UNCHANGED packVars

CursorNext ==
  \/ \E size \in 0..MaxRead : ReadCall(size)
  \/ \E k \in 1..MaxReads : ReadResume(k)

SpecCursor == ReadInit /\ [][CursorNext]_vars

(***************************************************************************)
(* createTarHeader, splitPath and parseTarHeader applied to one set of     *)
(* arguments.                                                              *)
(***************************************************************************)
A(n) == [i \in 1..n |-> 97]

\* a directory part of 160 bytes with a two-byte character on bytes 155-156,
\* and a last component of 103 bytes with a three-byte character on bytes 100-102
S_pathBoth == A(154) \o <<233>> \o A(4) \o <<Slash>> \o A(99) \o <<8364, 122>>

\* short paths, a path of exactly 100 bytes in 99 characters, a path of 101
\* bytes without a '/', a path over 100 bytes whose parts both fit, with and
\* without a '/' at its end, and a path whose parts are both too long
HeaderPaths ==
  {S_hello_txt, S_mydir, A(98) \o <<233>>, A(101), S_longdir,
   Take(S_longdir, Len(S_longdir) - 1), S_pathBoth}

Args(type, path, size, mode, uname, gname, uid, gid, date) ==
  [type |-> type, path |-> path, size |-> size, mode |-> mode, uname |-> uname,
   gname |-> gname, uid |-> uid, gid |-> gid, date |-> date]

\* Every path with both kinds and with and without a user name; modes with
\* and without the file-type bits fs.stat reports, with uids and gids up to and
\* over the seven octal digits an 8-byte field holds (2097151); sizes up to the
\* largest value the model's integers hold, and dates in milliseconds.
HeaderArgs ==
  {Args(t, p, 13, 420, u, S_group, 1000, 1000, 1999) :
     t \in {"file", "directory"}, p \in HeaderPaths, u \in {S_user, << >>}}
  \cup {Args("file", S_hello_txt, 13, m, S_user, S_group, u, g, 0) :
          m \in {0, 420, 4095, 33188, 16877},
          u \in {0, 1000, 2097151, 2097152, 16777216},
          g \in {0, 1000, 2097152}}
  \cup {Args(t, S_pathBoth, n, 16877, << >>, S_group, 2097152, 0, d) :
          t \in {"file", "directory"}, n \in {0, 13, 2147483647},
          d \in {0, 1999, 86400000}}

HeaderInit ==
  /\ entries = << >>
  /\ genThrows = FALSE
  /\ compression = "none"
  /\ aborted = FALSE
  /\ pk = [pc |-> "next", idx |-> 0, chunk |-> 0, position |-> 0]
  /\ out = << >>
  /\ stream = Open
  /\ returned = Open
  /\ recs = << >>
  /\ input = << >>
  /\ cur = [taken |-> 0, buffer |-> << >>]
  /\ ex = [status |-> "idle", error |-> "none"]
  /\ yielded = << >>
  /\ readables = << >>
  /\ last = [n |-> 0, entry |-> 0, result |-> "none"]
  /\ skip = [entry |-> 0, from |-> 0, to |-> 0]
  /\ overlapped = FALSE
  /\ damage = [kind |-> "none", at |-> 0, value |-> 0]
  /\ reads = << >>
  /\ halfDrained = FALSE
  /\ hdr \in {[step |-> "args", args |-> a] : a \in HeaderArgs}
  /\ mk = NoCall

\* splitPath(path)
HdrSplit ==
  /\ hdr.step = "args"
  /\ hdr' = [step |-> "split", args |-> hdr.args, split |-> splitPath(hdr.args.path)]
  /\ UNCHANGED <<packVars, input, cur, ex, yielded, readables, last, skip,
                 overlapped, damage, reads, halfDrained, mk>>

\* createTarHeader(type, path, size, mode, uname, gname, uid, gid, date)
HdrEncode ==
  /\ hdr.step = "split"
  /\ LET a == hdr.args
     IN  hdr' = [step |-> "encoded", args |-> a, split |-> hdr.split,
                 buffer |-> createTarHeader(a.type, a.path, a.size, a.mode,
                                            a.uname, a.gname, a.uid, a.gid, a.date)]
  /\ UNCHANGED <<packVars, input, cur, ex, yielded, readables, last, skip,
                 overlapped, damage, reads, halfDrained, mk>>

\* parseTarHeader(buffer) on the block createTarHeader returned
HdrDecode ==
  /\ hdr.step = "encoded"
  /\ hdr' = [step |-> "decoded", args |-> hdr.args, split |-> hdr.split,
             buffer |-> hdr.buffer, parsed |-> parseTarHeader(hdr.buffer)]
  /\ UNCHANGED <<packVars, input, cur, ex, yielded, readables, last, skip,
                 overlapped, damage, reads, halfDrained, mk>>

HeaderNext == HdrSplit \/ HdrEncode \/ HdrDecode

SpecHeader == HeaderInit /\ [][HeaderNext]_vars

(***************************************************************************)
(* Extraction of archives written by another tar program.                  *)
(***************************************************************************)
S_dir == <<100, 105, 114>>

\* A ustar header as tar(1) writes it: the fields as given (the gid one over
\* the uid, no group name for root), the checksum as six octal digits, a NUL
\* and a space.
ForeignHeader(name, prefix, typeflag, size, uname, uid) ==
  LET b1 == WriteAt(Zeros(BLOCK), 0, name)
      b2 == WriteAt(b1, 100, getOctalBytes(420, OCTAL8))
      b3 == WriteAt(b2, 108, getOctalBytes(uid, OCTAL8))
      b4 == WriteAt(b3, 116, getOctalBytes(uid + 1, OCTAL8))
      b5 == WriteAt(b4, 124, getOctalBytes(size, OCTAL12))
      b6 == WriteAt(b5, 136, getOctalBytes(0, OCTAL12))
      b7 == WriteAt(b6, 148, Spaces8)
      b8 == WriteAt(b7, 156, typeflag)
      b9 == WriteAt(b8, 257, Ustar \o <<0, 48, 48>>)
      b10 == WriteAt(b9, 265, uname)
      b11 == WriteAt(b10, 297, IF uname = S_root THEN << >> ELSE uname)
      b12 == WriteAt(b11, 345, prefix)
  IN  WriteAt(b12, 148, PadStart(ToOctal(SumRange(b12, 1, BLOCK)), 6, 48) \o <<0, 32>>)

\* the header and the content blocks of one entry
ForeignEntry(name, prefix, typeflag, size, uname, uid) ==
  ForeignHeader(name, prefix, typeflag, size, uname, uid)
    \o getPaddedBytes(Bytes(size, 5))

\* Directories stored as 'dir/', as 'dir//' and as prefix 'dir' with an empty
\* name; a file under a prefix, without a user name; a file ending in '/';
\* and entries of other kinds: a symbolic link ('2'), an extended header
\* ('x') and a long-name entry ('L') with content, a NUL and a space typeflag.
ForeignPool ==
  {ForeignEntry(S_dir \o <<Slash>>, << >>, <<53>>, 0, S_root, 0),
   ForeignEntry(S_dir \o <<Slash, Slash>>, << >>, <<53>>, 0, << >>, 1000),
   ForeignEntry(<< >>, S_dir, <<53>>, 0, S_user, 1000),
   ForeignEntry(S_hello_txt, S_dir, <<48>>, 13, << >>, 1000),
   ForeignEntry(S_hello_txt \o <<Slash>>, << >>, <<48>>, 13, S_user, 1000),
   ForeignEntry(S_hello_txt, << >>, <<50>>, 0, S_user, 1000),
   ForeignEntry(S_hello_txt, << >>, <<120>>, 13, S_user, 0),
   ForeignEntry(S_hello_txt, << >>, <<76>>, 513, S_root, 0),
   ForeignEntry(S_hello_txt, << >>, <<0>>, 13, S_user, 1000),
   ForeignEntry(S_hello_txt, S_dir, <<32>>, 13, << >>, 0)}

\* one entry of the pool, alone or followed by a plain file, and the
\* end-of-archive blocks; in one chunk or in chunks of one block
ForeignArchives ==
  LET plain == ForeignEntry(S_hello_txt, << >>, <<48>>, 13, S_user, 1000)
      bytes == {e \o terminatorBytes : e \in ForeignPool}
                 \cup {e \o plain \o terminatorBytes : e \in ForeignPool}
      blocks(b) == [k \in 1..(Len(b) \div BLOCK) |->
                      SubSeq(b, (k - 1) * BLOCK + 1, k * BLOCK)]
  IN  {<<b>> : b \in bytes} \cup {blocks(b) : b \in bytes}

ForeignInit ==
  /\ entries = << >>
  /\ genThrows = FALSE
  /\ compression = "none"
  /\ aborted = FALSE
  /\ pk = [pc |-> "next", idx |-> 0, chunk |-> 0, position |-> 0]
  /\ out = << >>
  /\ stream = Open
  /\ returned = Open
  /\ recs = << >>
  /\ input \in ForeignArchives
  /\ cur = [taken |-> 0, buffer |-> << >>]
  /\ ex = [status |-> "running", error |-> "none"]
  /\ yielded = << >>
  /\ readables = << >>
  /\ last = [n |-> 0, entry |-> 0, result |-> "none"]
  /\ skip = [entry |-> 0, from |-> 0, to |-> 0]
  /\ overlapped = FALSE
  /\ damage = [kind |-> "none", at |-> 0, value |-> 0]
  /\ reads = << >>
  /\ halfDrained = FALSE
  /\ hdr = NoHeader
  /\ mk = NoCall

ForeignNext ==
  \/ ExtNext
  \/ \E i \in 1..MaxEntries, mode \in ContentModes : GetContent(i, mode)
  \/ \E r \in 1..MaxCalls : ReadablePull(r)

SpecForeign == ForeignInit /\ [][ForeignNext]_vars

(***************************************************************************)
(* createReadableFileItem and createGeneratorFileItem                      *)
(***************************************************************************)
\* the sources handed to a helper: their chunks, Buffers or strings
MkSources ==
  {[strings |-> FALSE, chunks |-> c] :
     c \in {<< >>, <<<<1, 2, 3, 4, 5>>>>, <<<<1, 2, 3>>, <<4, 5, 6, 7>>>>,
            <<<<1, 2>>, << >>, <<3>>>>}}
    \cup {[strings |-> TRUE, chunks |-> <<<<233>>, <<104, 105>>>>]}

\* options?.length: left out, or a number
MkLengths == {[given |-> FALSE]} \cup {[given |-> TRUE, value |-> n] : n \in {0, 5, 7}}

\* a test for undefined alone
lengthUndefined(length) == ~length.given

\* !length: true for a length left out and for the number 0
lengthMissing(length) == ~length.given \/ length.value = 0

\* the item both helpers return: the defaults of the options, and the content
helperItem(content) == Item("file", S_hello_txt, 420, S_root, S_root, 0, 0, 0, content)

MkInit ==
  /\ entries = << >>
  /\ genThrows = FALSE
  /\ compression = "none"
  /\ aborted \in BOOLEAN
  /\ pk = [pc |-> "next", idx |-> 0, chunk |-> 0, position |-> 0]
  /\ out = << >>
  /\ stream = Open
  /\ returned = Open
  /\ recs = << >>
  /\ input = << >>
  /\ cur = [taken |-> 0, buffer |-> << >>]
  /\ ex = [status |-> "idle", error |-> "none"]
  /\ yielded = << >>
  /\ readables = << >>
  /\ last = [n |-> 0, entry |-> 0, result |-> "none"]
  /\ skip = [entry |-> 0, from |-> 0, to |-> 0]
  /\ overlapped = FALSE
  /\ damage = [kind |-> "none", at |-> 0, value |-> 0]
  /\ reads = << >>
  /\ halfDrained = FALSE
  /\ hdr = NoHeader
  /\ mk \in {[pc |-> "call", helper |-> h, source |-> s, length |-> l,
              taken |-> 0, chunks |-> << >>, total |-> 0] :
               h \in {"readable", "generator"}, s \in MkSources, l \in MkLengths}

\* let length = options?.length; if (!length) { chunks = []; length = 0; ... }
\* else return the item around the source itself
MkCall ==
  /\ mk.pc = "call"
  /\ IF lengthMissing(mk.length)
       THEN mk' = [mk EXCEPT !.pc = "collecting"]
       ELSE mk' = [pc |-> "returned", helper |-> mk.helper, source |-> mk.source,
                   length |-> mk.length, taken |-> mk.taken, chunks |-> mk.chunks,
                   total |-> mk.total,
                   item |-> helperItem(Source(mk.helper, mk.length.value,
                                              mk.source.chunks, FALSE))]
  /\ UNCHANGED <<input, cur, ex, yielded, readables, last, skip, overlapped, damage,
                 reads, halfDrained, hdr>>
  /\ UNCHANGED packVars

\* one round of the for await loop: signal?.throwIfAborted(), getBuffer, push
MkCollect ==
  /\ mk.pc = "collecting"
  /\ mk.taken < Len(mk.source.chunks)
  /\ IF aborted
       THEN mk' = [mk EXCEPT !.pc = "thrown", !.taken = mk.taken + 1]
       ELSE LET buffer == getBuffer(mk.source.strings, mk.source.chunks[mk.taken + 1])
            IN  mk' = [mk EXCEPT !.taken = mk.taken + 1,
                                 !.chunks = Append(mk.chunks, buffer),
                                 !.total = mk.total + Len(buffer)]
  /\ UNCHANGED <<input, cur, ex, yielded, readables, last, skip, overlapped, damage,
                 reads, halfDrained, hdr>>
  /\ UNCHANGED packVars

\* the source has ended: return the item around Readable.from(chunks)
MkReturn ==
  /\ mk.pc = "collecting"
  /\ mk.taken = Len(mk.source.chunks)
  /\ mk' = [pc |-> "returned", helper |-> mk.helper, source |-> mk.source,
            length |-> mk.length, taken |-> mk.taken, chunks |-> mk.chunks,
            total |-> mk.total,
            item |-> helperItem(Source("readable", mk.total, mk.chunks, FALSE))]
  /\ UNCHANGED <<input, cur, ex, yielded, readables, last, skip, overlapped, damage,
                 reads, halfDrained, hdr>>
  /\ UNCHANGED packVars

MkNext == MkCall \/ MkCollect \/ MkReturn

SpecItem == MkInit /\ [][MkNext]_vars

(***************************************************************************)
(* extractTo over createTarExtractor                                       *)
(***************************************************************************)
\* a loop that asks for the next entry whatever the body has done
bodyLeft(ys, lst) == lst.result \in {"none", "ok"}

\* the body of the for await loop has ended for the entry pulled last without
\* a throw: nothing for a directory but mkdir, the awaited
\* getContent('buffer') and writeFile for a file
bodyEnded(ys, lst) ==
  IF ys = << >> THEN TRUE
  ELSE IF ys[Len(ys)].kind = "directory" THEN TRUE
  ELSE ys[Len(ys)].calls = 1 /\ lst.entry = Len(ys) /\ lst.result = "ok"

\* for await (const entry of iterator): the next entry is pulled once the
\* body has ended
ExtractToPull ==
  /\ bodyEnded(yielded, last)
  /\ ExtNext

\* the file branch: const content = await fileEntry.getContent('buffer')
ExtractToFile ==
  /\ yielded # << >>
  /\ yielded[Len(yielded)].kind = "file"
  /\ yielded[Len(yielded)].calls = 0
  /\ GetContent(Len(yielded), "buffer")

ExtractToNext ==
  \/ PackEntry
  \/ PackInlineContent
  \/ PackSourceChunk
  \/ PackSourceDone
  \/ PackTerminator
  \/ PackEnd
  \/ ExtStart
  \/ ExtractToPull
  \/ ExtractToFile

\* Packing an archive and writing the stream it produced to a directory.
SpecExtractTo == RoundTripInit /\ [][ExtractToNext]_vars

(***************************************************************************)
(* Properties of packing, checked under SpecPack.                          *)
(***************************************************************************)
PackSucceeded == returned.status = "ended"

\* Position i of the pack has emitted its whole record.
Emitted(i) == i \in 1..Len(recs) /\ recs[i].end >= 0

PaddingFor(n) == (BLOCK - (n % BLOCK)) % BLOCK

\* The bytes the packer emitted from offset `from` up to offset `to`.
OutBytes(from, to) == SubSeq(Flatten(out), from + 1, to)

\* An entry's record: header, content, zero padding to the block boundary.
RecordOf(item) ==
  HeaderOf(item, DeclaredSize(item)) \o ContentBytes(item)
    \o Zeros(PaddingFor(Len(ContentBytes(item))))

RECURSIVE RecordsOf(_)
RecordsOf(items) ==
  IF items = << >> THEN << >> ELSE RecordOf(Head(items)) \o RecordsOf(Tail(items))

\* C6: when the entry sequence and every content source complete without an
\* error, the stream has ended and its bytes are the records of the entries
\* (header, content, padding) in input order followed by exactly 1024 zero
\* bytes: the terminator appears once and nothing follows it.
C6_RecordsThenTerminator ==
  PackSucceeded =>
    /\ pk.pc = "done"
    /\ Flatten(out) = RecordsOf(entries) \o Zeros(TERMINATOR_LENGTH)

C6_Witness ==
  /\ PackSucceeded
  /\ Len(entries) = 2
  /\ entries[1] = FileGen513
  /\ entries[2] = DirMy

\* C7: when the entry sequence or a content source raises an error, the
\* stream createTarPacker returned has failed with that error and no
\* terminator was emitted, with compression 'none' and with 'gzip'.
C7_FailurePropagates ==
  (pk.pc = "done" /\ stream.status = "failed" /\ stream.error \in {"generator", "content"})
    => /\ returned.status = "failed"
       /\ returned.error = stream.error
       /\ \A k \in 1..Len(out) : out[k] # terminatorBytes

\* The gzip packer after its entry generator threw: the stream it returned
\* is still open.
C7_Witness ==
  /\ compression = "gzip"
  /\ stream = [status |-> "failed", error |-> "generator"]
  /\ returned.status = "open"

\* C8: after a file's n content bytes the packer emits exactly
\* (512 - n mod 512) mod 512 zero bytes, so that every completed entry ends
\* on a multiple of 512.
C8_PaddingBoundary ==
  \A i \in 1..Len(recs) :
    Emitted(i) =>
      /\ recs[i].end % BLOCK = 0
      /\ recs[i].end - (recs[i].at + BLOCK + recs[i].n) = PaddingFor(recs[i].n)
      /\ AllZero(OutBytes(recs[i].at + BLOCK + recs[i].n, recs[i].end))

\* 513 bytes are followed by 511 zero bytes, 512 and 0 bytes by none.
C8_Witness ==
  /\ Len(recs) = 2
  /\ Emitted(1) /\ recs[1].n = 513 /\ recs[1].end - recs[1].at = 3 * BLOCK
  /\ Emitted(2) /\ recs[2].n = 512 /\ recs[2].end - recs[2].at = 2 * BLOCK

BlocksFor(n) == (n + BLOCK - 1) \div BLOCK

RECURSIVE SizeOfRecords(_)
SizeOfRecords(items) ==
  IF items = << >> THEN 0
  ELSE BLOCK + BLOCK * BlocksFor(Len(ContentBytes(Head(items))))
         + SizeOfRecords(Tail(items))

\* C9: a successful uncompressed pack of e1..ek is exactly
\* 1024 + sum of (512 + 512 * ceil(size_i / 512)) bytes long, size_i being the
\* number of content bytes of entry i and 0 for a directory.
C9_ArchiveSize ==
  (PackSucceeded /\ compression = "none") =>
    TotalLen(out) = TERMINATOR_LENGTH + SizeOfRecords(entries)

\* One 13-byte file plus one directory: 2560 bytes.
C9_Witness ==
  /\ PackSucceeded /\ compression = "none"
  /\ entries = <<FileHello, DirMy>>
  /\ TotalLen(out) = 2560

IsSource(item) == item.kind = "file" /\ item.content.kind \in {"generator", "readable"}

HeaderSize(i) == parseOctalBytes(OutBytes(recs[i].at, recs[i].at + BLOCK), 124, OCTAL12)

\* C10 as amended: for a generator or readable content the header carries the
\* declared length, and the padding is computed from the number of bytes the
\* packer actually forwarded.
C10_PadsByForwardedBytes ==
  \A i \in 1..Len(recs) :
    (Emitted(i) /\ IsSource(entries[i])) =>
      /\ HeaderSize(i) = entries[i].content.length
      /\ recs[i].end - (recs[i].at + BLOCK + recs[i].n) = PaddingFor(recs[i].n)

\* A generator that declared 10 bytes and produced 5 is padded with 507.
C10_Witness ==
  \E i \in 1..Len(recs) :
    /\ Emitted(i) /\ entries[i] = FileLying
    /\ recs[i].n = 5
    /\ recs[i].end - (recs[i].at + BLOCK + recs[i].n) = 507

\* C10 as stated: the padding is computed from the declared length.
C10_PadsByDeclaredLength ==
  \A i \in 1..Len(recs) :
    (Emitted(i) /\ IsSource(entries[i])) =>
      recs[i].end - (recs[i].at + BLOCK + recs[i].n) = PaddingFor(entries[i].content.length)

(***************************************************************************)
(* Properties of extracting what was packed, checked under Spec.           *)
(***************************************************************************)
\* The extractor was handed the whole archive.
Complete == ex.status # "idle" /\ TotalLen(input) = TotalLen(out)

\* ... and every content stream the consumer asked for had the cursor to
\* itself until it was drained.
WellUsed == Complete /\ ~overlapped

ToTheSecond(date) == (date \div 1000) * 1000

WithoutTrailingSlash(path) ==
  IF path # << >> /\ path[Len(path)] = Slash THEN Take(path, Len(path) - 1) ELSE path

NameOrId(name, id) == IF Trim(name) = << >> THEN ToDecimal(id) ELSE Trim(name)

\* What getContent returned for y is the content packed for e.
SameContent(e, y) ==
  /\ y.content.mode = "buffer" => y.content.data = ContentBytes(e)
  /\ y.content.mode = "string" => y.content.data = Utf8Decode(ContentBytes(e))
  /\ (y.content.mode = "string" /\ e.content.kind = "string")
       => y.content.data = e.content.data

SameCore(e, y) ==
  /\ y.kind = e.kind
  /\ y.uid = e.uid
  /\ y.gid = e.gid
  /\ y.date = ToTheSecond(e.date)
  /\ y.kind = "file" => y.size = Len(ContentBytes(e)) /\ SameContent(e, y)

\* The extracted entries are the packed ones as far as the iteration went,
\* all of them once it is done; a drained content stream delivered the
\* packed content.
RoundTrip(Same(_, _)) ==
  /\ ex.status # "failed"
  /\ Len(yielded) <= Len(entries)
  /\ ex.status = "done" => Len(yielded) = Len(entries)
  /\ \A i \in 1..Len(yielded) : Same(entries[i], yielded[i])
  /\ \A r \in 1..Len(readables) :
       readables[r].status = "ended"
         => readables[r].data = ContentBytes(entries[readables[r].entry])

SameAsStored(e, y) ==
  /\ SameCore(e, y)
  /\ y.mode = e.mode % (MODE_MASK + 1)
  /\ y.path = WithoutTrailingSlash(Trim(e.path))
  /\ y.uname = NameOrId(e.uname, e.uid)
  /\ y.gname = NameOrId(e.gname, e.gid)

SameAsGiven(e, y) ==
  /\ SameCore(e, y)
  /\ y.mode = e.mode
  /\ y.path = e.path
  /\ y.uname = e.uname
  /\ y.gname = e.gname

\* C1 as amended: extracting the bytes packed from entries with accurate
\* lengths yields as many entries in the same order, each with equal kind,
\* uid, gid, mtime to the second and content; with the mode reduced to its
\* low 12 bits; with the path and names stripped of surrounding white space,
\* the path of one trailing '/', and an empty name replaced by the decimal
\* uid or gid.
C1_RoundTripAsStored == WellUsed => RoundTrip(SameAsStored)

\* A stat mode, empty names and a path written with a trailing '/'.
C1_Witness ==
  /\ WellUsed /\ ex.status = "done"
  /\ entries = <<File512, DirLong>>
  /\ Len(yielded) = 2
  /\ yielded[1].content.mode = "buffer"
  /\ yielded[1].mode = 420 /\ yielded[1].uname = <<48>>

\* C1 as stated: ... each with equal kind, path, mode, uid, gid, uname,
\* gname, mtime to the second and content.
C1_RoundTripAsGiven == WellUsed => RoundTrip(SameAsGiven)

\* The step is a getContent call on the i-th yielded entry.
CallOn(i) == i \in 1..Len(yielded) /\ yielded'[i].calls = yielded[i].calls + 1

\* C2: whatever the mode of the first getContent call on a file entry, every
\* later getContent call on that entry fails with 'Content has already been
\* consumed', whatever mode it asks for.
C2_SecondCallFails ==
  [][\A i \in 1..Len(yielded) :
       (Complete /\ CallOn(i) /\ yielded[i].calls >= 1) => last'.result = "consumed"]_vars

\* Two calls on one entry of a complete archive, the second successful.
C2_Witness ==
  /\ Complete
  /\ last.n = 2 /\ last.result = "ok"
  /\ yielded[last.entry].calls = 2

\* C3: once the iteration has advanced past a file entry, getContent on it
\* fails with 'Content has already been consumed' in every mode; the entry
\* yielded after an entry that was skipped can still be read, and what is
\* read is its content.
C3_PassedEntryIsConsumed ==
  /\ [][\A i \in 1..Len(yielded) :
          (CallOn(i) /\ i < Len(yielded)) => last'.result = "consumed"]_vars
  /\ [][\A i \in 1..Len(yielded) :
          (CallOn(i) /\ i = Len(yielded) /\ skip.entry = i - 1 /\ ~yielded[i].consumed
             /\ WellUsed')
            => last'.result = "ok" /\ SameContent(entries[i], yielded'[i])]_vars

\* The first entry was skipped and asking for its content afterwards failed;
\* the second entry was read.
C3_Witness ==
  /\ WellUsed
  /\ Len(yielded) = 2 /\ skip.entry = 1
  /\ yielded[2].content.mode = "buffer" /\ yielded[2].content.data = Bytes(512, 1)
  /\ yielded[1].calls = 1 /\ last.entry = 1 /\ last.result = "consumed"

\* C4: the auto-skip of a file entry whose content was not asked for discards
\* exactly size + (512 - size mod 512) mod 512 bytes from the cursor, which
\* stood behind the entry's header, and marks the entry consumed; the next
\* header is read where the discarded bytes end.
C4_AutoSkipDiscardsPaddedContent ==
  \A i \in 1..Len(yielded) :
    (skip.entry = i /\ yielded[i].calls = 0) =>
      /\ yielded[i].consumed
      /\ skip.from = yielded[i].at + BLOCK
      /\ skip.to - skip.from = yielded[i].size + PaddingFor(yielded[i].size)
      /\ i < Len(yielded) => yielded[i + 1].at = skip.to

\* A stream that ends with the 13 content bytes of its only file: the
\* auto-skip discarded 13 bytes and the iteration ended normally.
C4_Witness ==
  /\ ex.status = "done"
  /\ Len(yielded) = 1 /\ yielded[1].size = 13 /\ yielded[1].calls = 0
  /\ skip.entry = 1 /\ skip.to - skip.from = 13
  /\ yielded[1].consumed

\* C5: the extractor yields one entry per header block before the
\* terminator, in archive order: the i-th yielded entry was read from the
\* i-th header block, whichever entries the consumer read as string, buffer
\* or drained stream and whichever it skipped; at the end none is missing.
C5_ArchiveOrder ==
  WellUsed =>
    /\ ex.status # "failed"
    /\ Len(yielded) <= Len(recs)
    /\ ex.status = "done" => Len(yielded) = Len(recs)
    /\ \A i \in 1..Len(yielded) :
         /\ yielded[i].at = recs[i].at
         /\ yielded[i].kind = entries[i].kind
         /\ yielded[i].size = recs[i].n

\* The first entry drained as a stream, the second skipped.
C5_Witness ==
  /\ WellUsed /\ ex.status = "done"
  /\ Len(yielded) = 2
  /\ skip.entry = 2
  /\ \E r \in 1..Len(readables) : readables[r].entry = 1 /\ readables[r].status = "ended"


(***************************************************************************)
(* Properties of extracting a damaged stream, checked under SpecDamaged.   *)
(***************************************************************************)
\* the header block of the k-th record as packed, and as handed over
PackedHeader(k) == OutBytes(recs[k].at, recs[k].at + BLOCK)

GivenHeader(k) == SubSeq(Flatten(input), recs[k].at + 1, recs[k].at + BLOCK)

\* one byte at an offset of F inside the k-th header block was overwritten
FieldDamaged(k, F) == damage.kind = "byte" /\ (damage.at - recs[k].at) \in F

\* the extraction has read the k-th header block, or has stopped
HeaderReached(k) == ex.status \in {"done", "failed"} \/ Len(yielded) >= k

\* the iteration failed with `error` at the k-th header, yielding nothing for it
FailsAt(k, error) == ex.status = "failed" /\ ex.error = error /\ Len(yielded) = k - 1

\* C11 (as amended): a change of one byte of the checksum field that changes
\* the octal value the field parses to makes the extraction fail with
\* 'Invalid checksum', and a change of one of the five letters of the magic
\* makes it fail with 'Invalid tar format'; no entry is yielded for that header.
C11_ChangedValueFails ==
  \A k \in 1..Len(recs) :
    (~overlapped /\ HeaderReached(k)) =>
      /\ (FieldDamaged(k, ChecksumField)
            /\ parseOctalBytes(GivenHeader(k), 148, OCTAL8)
                 # parseOctalBytes(PackedHeader(k), 148, OCTAL8))
           => FailsAt(k, "Invalid checksum")
      /\ FieldDamaged(k, MagicField \ {262}) => FailsAt(k, "Invalid tar format: magic")

C11_Witness ==
  /\ Len(recs) = 2 /\ FieldDamaged(2, ChecksumField)
  /\ FailsAt(2, "Invalid checksum")
  /\ yielded[1].consumed

\* C11 (as stated): any change of one byte of the checksum field fails with
\* 'Invalid checksum', any change of one byte of the magic with 'Invalid tar
\* format'.
C11_AnyByteFails ==
  \A k \in 1..Len(recs) :
    (~overlapped /\ HeaderReached(k)) =>
      /\ FieldDamaged(k, ChecksumField) => FailsAt(k, "Invalid checksum")
      /\ FieldDamaged(k, MagicField) => FailsAt(k, "Invalid tar format: magic")


\* the stream was cut after 1..511 bytes of the block that starts at offset p
CutInBlock(p) == damage.kind = "cut" /\ (damage.at - p) \in 1..(BLOCK - 1)

\* the stream was cut before the end of the content of the k-th record, a file
CutInContent(k) ==
  /\ damage.kind = "cut"
  /\ entries[k].kind = "file"
  /\ (damage.at - (recs[k].at + BLOCK)) \in 0..(recs[k].n - 1)

EndOfStream == "Unexpected end of stream"

\* what C12 says of a state: the cut header fails the iteration, and a file
\* with cut content fails its streams and the iteration's auto-skip
TruncationSeen ==
  /\ \A k \in 1..(Len(recs) + 1) :
       (CutInBlock(IF k <= Len(recs) THEN recs[k].at ELSE TerminatorAt) /\ HeaderReached(k))
         => FailsAt(k, "Invalid tar format: incomplete header")
  /\ \A k \in 1..Len(recs) :
       CutInContent(k) =>
         /\ \A r \in 1..Len(readables) :
              readables[r].entry = k =>
                /\ readables[r].status # "ended"
                /\ readables[r].status = "failed" => readables[r].error = EndOfStream
         /\ (Len(yielded) = k /\ ex.status # "running") => FailsAt(k + 1, EndOfStream)

\* C12: a stream that ends after 1..511 bytes of a header block fails the
\* iteration with 'Invalid tar format: incomplete header'; a stream that ends
\* inside the content of a file fails the getContent call, the drain of its
\* readable and the auto-skip of next() with 'Unexpected end of stream'.
C12_Truncation ==
  /\ [](~overlapped => TruncationSeen)
  /\ [][\A k \in 1..Len(recs) :
          (CutInContent(k) /\ CallOn(k) /\ readables' = readables /\ ~overlapped')
            => last'.result = "eof"]_vars

C12_Witness ==
  /\ Len(recs) = 1 /\ CutInContent(1) /\ damage.at > recs[1].at + BLOCK
  /\ ~overlapped
  /\ Len(readables) = 1 /\ readables[1].status = "failed"
  /\ last.n = 2 /\ last.result = "eof"
  /\ FailsAt(2, EndOfStream)


\* what the stream holds behind the first terminator block
SecondBlock == Drop(Flatten(input), TerminatorAt + BLOCK)

\* the stream holds every record and the first terminator block undamaged
FirstTerminatorIntact ==
  \/ damage.kind = "none"
  \/ damage.kind \in {"cut", "byte"} /\ damage.at >= TerminatorAt + BLOCK

InvalidFormat ==
  {"Invalid tar format: magic", "Invalid tar format: incomplete header",
   "Invalid tar format: expected terminator block"}

Stopped == ex.status \in {"done", "failed"}

\* C13: behind an all-zero block the iteration ends cleanly when the stream
\* has no further bytes or one more all-zero block, and fails with 'Invalid
\* tar format' in every other case; a stream that ends at a header boundary
\* without a terminator ends the iteration cleanly.
C13_EndOfArchive ==
  (~overlapped /\ Stopped) =>
    /\ FirstTerminatorIntact =>
         IF SecondBlock = << >> \/ (Len(SecondBlock) = BLOCK /\ AllZero(SecondBlock))
           THEN ex.status = "done" /\ Len(yielded) = Len(recs)
           ELSE ex.status = "failed" /\ ex.error \in InvalidFormat
    /\ (damage.kind = "cut" /\ damage.at = TerminatorAt)
         => ex.status = "done" /\ Len(yielded) = Len(recs)

\* a second terminator block of 1..511 bytes fails with the error of readExactBytes
C13_Witness ==
  /\ ~overlapped
  /\ Stopped
  /\ FirstTerminatorIntact
  /\ Len(SecondBlock) \in 1..(BLOCK - 1)
  /\ ex.status = "failed" /\ ex.error = EndOfStream
  /\ Len(yielded) = Len(recs)


(***************************************************************************)
(* Properties of cancelling an extraction, checked under SpecAbort.        *)
(***************************************************************************)
AbortError == "AbortError"

\* the entries yielded so far, without the state of their content accessors
Entries(ys) ==
  [i \in 1..Len(ys) |->
     [ys[i] EXCEPT !.calls = 0, !.consumed = FALSE,
                   !.content = [mode |-> "none", data |-> << >>]]]

\* C14: once the signal is signaled, a step of the iteration fails it with
\* the abort error and yields nothing; no read moves the cursor, also with
\* put-back data buffered: a getContent that needs bytes and a drain of a
\* readable fail with the abort error; the entries yielded before stay.
C14_ExtractionCancelled ==
  [][aborted =>
       /\ Entries(yielded') = Entries(yielded)
       /\ cur' = cur
       /\ ex' # ex => (ex'.status = "failed" /\ ex'.error = AbortError)
       /\ \A i \in 1..Len(yielded) :
            (CallOn(i) /\ ~yielded[i].consumed /\ yielded[i].size > 0
               /\ readables' = readables)
              => last'.result = "abort"
       /\ \A r \in 1..Len(readables) :
            (r \in 1..Len(readables') /\ readables'[r] # readables[r])
              => (readables'[r].status = "failed" /\ readables'[r].error = AbortError)]_vars

C14_Witness ==
  /\ aborted
  /\ cur.buffer # << >>
  /\ Len(yielded) = 1
  /\ last.n = 2 /\ last.result = "abort"
  /\ Len(readables) = 1 /\ readables[1].status = "failed" /\ readables[1].error = AbortError
  /\ ex.status = "failed" /\ ex.error = AbortError


(***************************************************************************)
(* Cancelling the packer, checked under SpecPack.                          *)
(***************************************************************************)
\* C15: once the signal is signaled while the packer runs, it forwards no
\* further bytes, takes no further chunk of a content source, and its stream
\* fails with the abort error instead of emitting the terminator.
C15_PackingCancelled ==
  [][(aborted /\ pk.pc # "done") =>
       /\ out' = out
       /\ pk'.chunk = pk.chunk
       /\ stream' # stream => (stream'.status = "failed" /\ stream'.error = "abort")]_vars

\* signaled while packing, and the archive was still completed
C15_Witness ==
  /\ aborted
  /\ entries # << >>
  /\ stream.status = "ended"
  /\ Drop(Flatten(out), TotalLen(out) - TERMINATOR_LENGTH) = terminatorBytes


(***************************************************************************)
(* Further properties of extraction, checked under Spec.                   *)
(***************************************************************************)
\* the yielded entries with their accessor state, without the count of calls
Uncounted(ys) == [i \in 1..Len(ys) |-> [ys[i] EXCEPT !.calls = 0]]

\* C16: a getContent call that fails with 'Content has already been
\* consumed' reads no byte from the cursor and changes nothing the extractor
\* or an accessor looks at afterwards.
C16_ConsumedCallChangesNothing ==
  [][\A i \in 1..Len(yielded) :
       (CallOn(i) /\ last'.result = "consumed") =>
         /\ cur' = cur
         /\ input' = input
         /\ ex' = ex
         /\ readables' = readables
         /\ Uncounted(yielded') = Uncounted(yielded)]_vars

\* the failing call was made on the first entry before the second was
\* yielded, and the extraction went on to the end of the archive
C16_Witness ==
  /\ last.n = 2 /\ last.entry = 1 /\ last.result = "consumed"
  /\ Len(yielded) = 2 /\ yielded[2].calls = 0
  /\ ex.status = "done"
  /\ WellUsed /\ RoundTrip(SameAsStored)


\* the size bytes that follow the header of the i-th yielded entry
ContentOf(i) ==
  SubSeq(Flatten(input), yielded[i].at + BLOCK + 1, yielded[i].at + BLOCK + yielded[i].size)

\* the offset of the header that follows the i-th yielded entry
NextHeaderAt(i) == yielded[i].at + BLOCK + yielded[i].size + PaddingFor(yielded[i].size)

\* C17: getContent('buffer') returns the size bytes behind the header,
\* getContent('string') their UTF-8 decoding, the chunks of
\* getContent('readable') concatenate to the same bytes; each leaves the
\* cursor at the start of the next header once complete.
C17_SameMaterial ==
  /\ [][\A i \in 1..Len(yielded) :
          (WellUsed' /\ CallOn(i) /\ last'.result = "ok" /\ readables' = readables) =>
            /\ yielded'[i].content.mode \in {"string", "buffer"}
            /\ yielded'[i].content.data =
                 IF yielded'[i].content.mode = "string"
                   THEN Utf8Decode(ContentOf(i)) ELSE ContentOf(i)
            /\ Pos(input, cur') = NextHeaderAt(i)]_vars
  /\ [][\A r \in 1..Len(readables) :
          (WellUsed' /\ readables'[r].status = "ended" /\ readables[r].status # "ended") =>
            /\ readables'[r].data = ContentOf(readables[r].entry)
            /\ Pos(input, cur') = NextHeaderAt(readables[r].entry)]_vars

C17_Witness ==
  /\ WellUsed
  /\ Len(yielded) = 2
  /\ yielded[1].content.mode = "string" /\ yielded[1].content.data = S_Hello_world
  /\ Len(readables) = 1 /\ readables[1].entry = 2 /\ readables[1].status = "ended"
  /\ Len(readables[1].data) > BLOCK
  /\ Pos(input, cur) = NextHeaderAt(2)


\* C18: for a directory the packer emits a 512-byte header with size 0 and
\* nothing else; the extractor yields it without a content accessor and
\* reads the next header right behind its header.
C18_DirectoriesCarryNoContent ==
  /\ \A i \in 1..Len(recs) :
       entries[i].kind = "directory" =>
         /\ recs[i].end - recs[i].at = BLOCK
         /\ HeaderSize(i) = 0
         /\ parseTarHeader(OutBytes(recs[i].at, recs[i].end)).kind = "directory"
  /\ ~overlapped =>
       \A i \in 1..Len(yielded) :
         yielded[i].kind = "directory" =>
           /\ yielded[i].calls = 0 /\ yielded[i].content.mode = "none"
           /\ ~\E r \in 1..Len(readables) : readables[r].entry = i
           /\ IF i < Len(yielded) THEN yielded[i + 1].at = yielded[i].at + BLOCK
              ELSE ex.status = "running" => Pos(input, cur) = yielded[i].at + BLOCK

C18_Witness ==
  /\ ~overlapped
  /\ Len(yielded) = 2
  /\ yielded[1].kind = "directory" /\ yielded[2].kind = "file"
  /\ yielded[2].at = BLOCK
  /\ yielded[2].content.mode = "buffer"
  /\ ex.status = "done"


(***************************************************************************)
(* Properties of readExactBytes, checked under SpecRead.                   *)
(***************************************************************************)
\* the buffers the reads have returned, in the order of the reads
ReadData == Flatten([k \in 1..Len(reads) |-> reads[k].data])

AllReadsOk == \A k \in 1..Len(reads) : reads[k].tag = "ok"

\* C19: however the source is split into chunks, every read that succeeds
\* returns exactly the bytes asked for, the reads together return the bytes
\* of the source in order from its start, and what was over-read is still
\* ahead of the cursor.
C19_ExactReadsInOrder ==
  /\ \A k \in 1..Len(reads) :
       reads[k].tag = "ok" =>
         reads[k].data = SubSeq(Flatten(input), reads[k].at + 1, reads[k].at + reads[k].size)
  /\ ReadData = Take(Flatten(input), Len(ReadData))
  /\ AllReadsOk => Pos(input, cur) = Len(ReadData)

\* two reads of a source in chunks of 2 and 3 bytes: the second starts with
\* the byte the first put back, crosses the chunk boundary and puts back again
C19_Witness ==
  /\ Len(reads) = 2 /\ AllReadsOk
  /\ Len(input) = 2 /\ Len(input[1]) = 2 /\ Len(input[2]) = 3
  /\ reads[1].size = 1 /\ reads[2].size = 3
  /\ reads[2].data = <<2, 3, 4>>
  /\ cur.buffer = <<<<5>>>>

\* the bytes the source still holds when the k-th read starts
Available(k) == TotalLen(input) - reads[k].at

\* C20: a read of n > 0 bytes returns the 'no data' value when the source has
\* ended, fails with 'Unexpected end of stream' when the source ends after 1
\* to n-1 bytes, and otherwise returns n bytes, never fewer.
C20_ShortSource ==
  \A k \in 1..Len(reads) :
    reads[k].size > 0 =>
      /\ Available(k) = 0 => reads[k].tag = "none"
      /\ Available(k) \in 1..(reads[k].size - 1) => reads[k].tag = "eof"
      /\ reads[k].tag = "ok" => Len(reads[k].data) = reads[k].size

C20_Witness ==
  /\ Len(reads) = 3
  /\ reads[1].tag = "ok" /\ reads[1].size = 2
  /\ reads[2].tag = "eof" /\ reads[2].size = 3 /\ Available(2) = 2
  /\ reads[3].tag = "none" /\ reads[3].size = 1


(***************************************************************************)
(* Properties of the buffered iterator, checked under SpecCursor.          *)
(***************************************************************************)
\* with put-back data pending no step takes a chunk from the source
PendingFirst == [][cur.buffer # << >> => cur'.taken = cur.taken]_vars

\* C21 (as amended): while no read has been started with another read
\* suspended, the put-back buffer holds at most one segment; and a pending
\* segment is always handed out before a new chunk is pulled from the source.
C21_OnePendingSegment ==
  /\ [](~overlapped => Len(cur.buffer) <= 1)
  /\ PendingFirst

\* a read served from the put-back data has put back its own rest
C21_Witness ==
  /\ ~overlapped
  /\ Len(reads) = 2 /\ reads[1].tag = "ok" /\ reads[2].tag = "ok"
  /\ Len(input) = 1
  /\ reads[2].at > 0
  /\ Len(cur.buffer) = 1

\* C21 (as stated): at most one segment is pending in every reachable state.
C21_OnePendingAlways ==
  /\ [](Len(cur.buffer) <= 1)
  /\ [][cur.buffer # << >> => cur'.taken = cur.taken /\ Len(cur'.buffer) <= 1]_vars


(***************************************************************************)
(* Properties of the extractor's position and flags, checked under Spec.   *)
(***************************************************************************)
\* the next thing the extractor reads is a header block
AtHeader ==
  /\ ex.status = "running"
  /\ yielded # << >> => (yielded[Len(yielded)].kind = "directory" \/ yielded[Len(yielded)].consumed)

\* C22: every block parsed as a header starts at a multiple of 512: the
\* headers of the yielded entries, and the block the extractor reads next
\* once the last file was consumed by getContent, by a drained readable or
\* by the auto-skip, which discards size + (512 - size mod 512) mod 512 bytes.
C22_HeaderAlignment ==
  ~overlapped =>
    /\ \A i \in 1..Len(yielded) : yielded[i].at % BLOCK = 0
    /\ (Complete /\ AtHeader) => Pos(input, cur) % BLOCK = 0
    /\ (Complete /\ skip.entry > 0) =>
         skip.to - skip.from = yielded[skip.entry].size + PaddingFor(yielded[skip.entry].size)

\* the 513 bytes of the first file were passed by the auto-skip, and the
\* second header was read at 512 + 513 + 511
C22_Witness ==
  /\ ~overlapped /\ Complete
  /\ Len(yielded) = 2
  /\ yielded[1].size = 513 /\ skip.entry = 1 /\ yielded[1].calls = 0
  /\ yielded[2].at = 1536
  /\ AtHeader


\* the getContent calls on the i-th entry that have taken bytes from the
\* cursor: the readables that have forwarded data, and the call that
\* returned the content as a string or a buffer
CursorReaders(i) ==
  Cardinality({r \in 1..Len(readables) : readables[r].entry = i /\ readables[r].data # << >>})
    + (IF yielded[i].content.mode # "none" /\ yielded[i].content.data # << >> THEN 1 ELSE 0)

\* C23: for one file entry at most one getContent call ever reads bytes
\* from the cursor, also when the readable of the first call has not been
\* drained; every other call fails with 'Content has already been consumed'.
C23_OneReaderPerEntry ==
  \A i \in 1..Len(yielded) :
    /\ CursorReaders(i) <= 1
    /\ (last.entry = i /\ yielded[i].calls >= 2) => last.result = "consumed"

\* a readable of the entry has forwarded bytes and a later call on the
\* same entry has returned content read from where that readable stopped
C23_Witness ==
  /\ Complete
  /\ Len(readables) = 1 /\ readables[1].status = "flowing"
  /\ yielded[readables[1].entry].content.mode = "buffer"
  /\ CursorReaders(readables[1].entry) = 2


\* nothing was ever pulled from any readable that getContent has returned
AllUntouched == \A r \in 1..Len(readables) : readables[r].status = "new"

\* C24: obtaining a readable leaves the cursor where it is; the step of a
\* readable that marks the entry consumed is the one that ends it, with all
\* size bytes forwarded and the padding skipped; and with readables that
\* were never pulled, next() passes the content itself and every entry is
\* yielded from its own header, equal to what was packed.
C24_ReadableConsumesAtEnd ==
  /\ [][\A r \in 1..Len(readables') : r > Len(readables) => cur' = cur]_vars
  /\ [][\A r \in 1..Len(readables) :
          (readables'[r] # readables[r]
             /\ yielded'[readables[r].entry].consumed /\ ~yielded[readables[r].entry].consumed)
            => /\ readables'[r].status = "ended"
               /\ Len(readables'[r].data) = yielded[readables[r].entry].size
               /\ (Complete /\ ~overlapped')
                    => Pos(input, cur') - Pos(input, cur)
                         = PaddingFor(yielded[readables[r].entry].size)]_vars
  /\ []((Complete /\ AllUntouched) =>
          /\ RoundTrip(SameAsStored)
          /\ \A i \in 1..Len(yielded) : yielded[i].at = recs[i].at)

\* a readable of the first entry was obtained and never pulled; next() has
\* passed the content and yielded the second entry
C24_Witness ==
  /\ Complete
  /\ Len(readables) = 1 /\ readables[1].entry = 1 /\ AllUntouched
  /\ Len(yielded) = 2 /\ yielded[2].at = recs[2].at
  /\ skip.entry = 1 /\ yielded[1].consumed
  /\ yielded[1].size > 0

\* The content of file entry i with its padding, in bytes.
Allotted(i) == yielded[i].size + PaddingFor(yielded[i].size)

ReadableOf(i) == {r \in 1..Len(readables) : readables[r].entry = i}

\* The consumed flag of an entry starts false, is only ever raised, and is
\* raised by a getContent call on that entry, by a readable of that entry, or
\* by the auto-skip of the next() that follows the entry.
ConsumedFlagSteps ==
  [][/\ \A i \in 1..Len(yielded') : i > Len(yielded) => ~yielded'[i].consumed
     /\ \A i \in 1..Len(yielded) :
          /\ yielded[i].consumed => yielded'[i].consumed
          /\ (yielded'[i].consumed /\ ~yielded[i].consumed)
               => \/ yielded'[i].calls = yielded[i].calls + 1
                  \/ \E r \in ReadableOf(i) : readables'[r].status = "ended"
                                                /\ readables[r].status # "ended"
                  \/ i = Len(yielded) /\ skip'.entry = i /\ skip' # skip]_vars

\* C25: the consumed flag of a file entry starts false, is raised at most once,
\* only by the entry's accessor or the auto-skip, and never lowered; and when
\* no next() was called over a partly drained readable, a consumed entry of a
\* complete archive has had exactly size plus padding bytes taken from the
\* cursor.
C25_ConsumedOnceExactBytes ==
  /\ ConsumedFlagSteps
  /\ []((Complete /\ ~halfDrained) =>
          \A i \in 1..Len(yielded) :
            yielded[i].consumed => yielded[i].taken = Allotted(i))

\* A readable obtained first, a buffer call on the same entry next, and the
\* readable drained before next(): the entry's bytes were taken twice.
C25_Witness ==
  /\ Complete /\ ~halfDrained
  /\ Len(yielded) = 1 /\ yielded[1].consumed /\ yielded[1].size > 0
  /\ yielded[1].content.mode = "buffer"
  /\ Len(readables) = 1 /\ readables[1].status = "ended"
  /\ yielded[1].taken = 2 * Allotted(1)
  /\ ex.status = "done"

(***************************************************************************)
(* Properties of header encoding, checked under SpecHeader.                *)
(***************************************************************************)
Encoded == hdr.step \in {"encoded", "decoded"}

Decoded == hdr.step = "decoded"

\* the bytes of the field of the given length at the given offset
Field(offset, length) == SubSeq(hdr.buffer, offset + 1, offset + length)

\* C26: every header createTarHeader returns carries the magic 'ustar' and a
\* checksum field that decodes to the sum of the 512 bytes with the field
\* counted as eight spaces, and parseTarHeader accepts it.
C26_HeadersValidate ==
  /\ Encoded => /\ parseString(hdr.buffer, 257, 6) = Ustar
                /\ parseOctalBytes(hdr.buffer, 148, OCTAL8)
                     = SumRange(hdr.buffer, 1, 148) + 8 * 32
                         + SumRange(hdr.buffer, 157, BLOCK)
  /\ Decoded => hdr.parsed.tag = "header"

C26_Witness ==
  /\ Decoded
  /\ hdr.args.type = "directory" /\ hdr.args.path = S_pathBoth
  /\ hdr.args.uid = 2097152 /\ hdr.args.size = 2147483647
  /\ hdr.parsed.tag = "header"
  /\ hdr.parsed.checksum = calculatedSum(hdr.buffer)

AllOctalDigits(f) == \A i \in 1..Len(f) : IsOctalDigit(f[i])

FieldHolds(offset, length, value) ==
  /\ AllOctalDigits(Take(Field(offset, length), length - 1))
  /\ Field(offset, length)[length] = 0
  /\ parseOctalBytes(hdr.buffer, offset, length) = value

\* C28: for every non-negative uid, gid, size and mtime, the field
\* createTarHeader writes is octal digits ending with a NUL inside the field's
\* own bytes (8 for mode, uid, gid; 12 for size, mtime) and decodes to the
\* value that was encoded.
C28_NumericFieldsHold ==
  Encoded => /\ FieldHolds(100, OCTAL8, hdr.args.mode % (MODE_MASK + 1))
             /\ FieldHolds(108, OCTAL8, hdr.args.uid)
             /\ FieldHolds(116, OCTAL8, hdr.args.gid)
             /\ FieldHolds(124, OCTAL12, hdr.args.size)
             /\ FieldHolds(136, OCTAL12, hdr.args.date \div 1000)

\* A uid of nine octal digits: the field holds the first eight, no NUL, and
\* the extractor reports another uid.
C28_Witness ==
  /\ Decoded
  /\ hdr.args.uid = 16777216
  /\ AllOctalDigits(Field(108, OCTAL8))
  /\ hdr.parsed.tag = "header"
  /\ hdr.parsed.uid = 2097152

\* C29: the mode field holds the entry's mode masked to its low 12 bits, and
\* the mode parseTarHeader reports for the header is mode & 0o7777, for modes
\* with file-type bits as well.
C29_ModeMasked ==
  /\ Encoded => LET f == Field(100, OCTAL8)
                IN  /\ AllOctalDigits(Take(f, 7)) /\ f[8] = 0
                    /\ OctalValue(Take(f, 7), 1, 0) = hdr.args.mode % 4096
  /\ Decoded => /\ hdr.parsed.tag = "header"
                /\ hdr.parsed.mode = hdr.args.mode % 4096

C29_Witness ==
  /\ Decoded
  /\ hdr.args.mode = 33188
  /\ hdr.parsed.tag = "header"
  /\ hdr.parsed.mode = 420

IsPrefixOf(a, b) == Len(a) <= Len(b) /\ Take(b, Len(a)) = a

\* the bytes of a string, encoded one character at a time
ByteCount(str) == SumRange([i \in 1..Len(str) |-> Len(Utf8Char(str[i]))], 1, Len(str))

HasSplit == hdr.step \in {"split", "encoded", "decoded"}

\* C30: a path of at most 100 bytes gets an empty prefix and itself as name;
\* a longer path is cut at its last '/', the part behind it becoming the name
\* and the part before it the prefix, each kept whole when it fits and else
\* cut to a prefix of whole characters; the name is never over 100 bytes and
\* the prefix never over 155 (so the loop that truncates the prefix ends
\* after one truncation), and splitPath returns for every path.
C30_SplitPath ==
  HasSplit =>
    LET path == hdr.args.path
        slashes == {i \in 1..Len(path) : path[i] = Slash}
        cut == IF slashes = {} THEN 0 ELSE CHOOSE i \in slashes : \A j \in slashes : j <= i
        lastPart == SubSeq(path, cut + 1, Len(path))
        dirPart == SubSeq(path, 1, cut - 1)
    IN  /\ ByteCount(hdr.split.name) <= MAX_NAME
        /\ ByteCount(hdr.split.prefix) <= MAX_PREFIX
        /\ IF ByteCount(path) <= MAX_NAME
             THEN hdr.split.prefix = << >> /\ hdr.split.name = path
             ELSE /\ IsPrefixOf(hdr.split.name, lastPart)
                  /\ IsPrefixOf(hdr.split.prefix, dirPart)
                  /\ ByteCount(lastPart) <= MAX_NAME => hdr.split.name = lastPart
                  /\ ByteCount(dirPart) <= MAX_PREFIX => hdr.split.prefix = dirPart

C30_Witness ==
  /\ hdr.step = "split"
  /\ hdr.args.path = S_pathBoth
  /\ hdr.split.name = A(99)
  /\ hdr.split.prefix = A(154)

LongPath == ByteCount(hdr.args.path) > MAX_NAME

\* the part of the path behind its last '/', and the part before it
LastPart(path) == Drop(path, LastSlash(path))

DirPart(path) == IF LastSlash(path) = 0 THEN << >> ELSE Take(path, LastSlash(path) - 1)

PartsFit ==
  /\ ByteCount(LastPart(hdr.args.path)) <= MAX_NAME
  /\ ByteCount(DirPart(hdr.args.path)) <= MAX_PREFIX

\* C31 as stated: a path over 100 bytes whose parts fit is extracted unchanged.
C31_LongPathUnchanged ==
  (Decoded /\ LongPath /\ PartsFit)
    => hdr.parsed.tag = "header" /\ hdr.parsed.path = hdr.args.path

\* C31: a path over 100 bytes whose last component is at most 100 bytes and
\* whose part before the last '/' is at most 155 bytes is extracted as it was
\* given but for one '/' at its end, which is removed; when a part is over its
\* limit the header is still accepted and the extracted path is another,
\* shorter path, made of the truncated parts.
C31_LongPathRoundTrip ==
  (Decoded /\ LongPath) =>
    /\ hdr.parsed.tag = "header"
    /\ IF PartsFit
         THEN hdr.parsed.path = WithoutTrailingSlash(hdr.args.path)
         ELSE /\ hdr.parsed.path # hdr.args.path
              /\ ByteCount(hdr.parsed.path) < ByteCount(hdr.args.path)
              /\ hdr.parsed.path
                   = WithoutTrailingSlash(IF hdr.split.prefix # << >>
                                            THEN hdr.split.prefix \o <<Slash>> \o hdr.split.name
                                            ELSE hdr.split.name)

\* A long path whose parts fit, given with a '/' at its end, comes back
\* without it.
C31_Witness ==
  /\ Decoded /\ LongPath /\ PartsFit
  /\ hdr.args.path = S_longdir
  /\ hdr.parsed.path = Take(S_longdir, Len(S_longdir) - 1)

(***************************************************************************)
(* Properties of header decoding, checked under SpecForeign.               *)
(***************************************************************************)
\* the 512 bytes the i-th yielded entry was decoded from
BlockOf(i) == SubSeq(Flatten(input), yielded[i].at + 1, yielded[i].at + BLOCK)

\* the text of a string field of that block
TextOf(i, offset, length) == parseString(BlockOf(i), offset, length)

StripOneSlash(path) ==
  IF Len(path) > 0 /\ path[Len(path)] = Slash THEN SubSeq(path, 1, Len(path) - 1) ELSE path

\* C32: the path of a decoded header is prefix + '/' + name when the prefix
\* field is not empty and the name otherwise, with exactly one '/' removed
\* from its end when it ends in one: 'dir/' is reported as 'dir', 'dir//' as
\* 'dir/'.
C32_PathRebuilt ==
  \A i \in 1..Len(yielded) :
    LET prefix == TextOf(i, 345, 155)
        name == TextOf(i, 0, 100)
    IN  yielded[i].path = StripOneSlash(IF prefix = << >> THEN name
                                        ELSE prefix \o <<Slash>> \o name)

C32_Witness ==
  /\ Len(yielded) = 2
  /\ TextOf(1, 0, 100) = S_dir \o <<Slash, Slash>>
  /\ yielded[1].path = S_dir \o <<Slash>>
  /\ yielded[1].kind = "directory"
  /\ ex.status = "done"

\* C33: a decoded header reports the stored user (group) name when that field
\* is not empty, and the decimal digits of the uid (gid) when it is.
C33_NameOrNumber ==
  \A i \in 1..Len(yielded) :
    LET uname == TextOf(i, 265, 32)
        gname == TextOf(i, 297, 32)
    IN  /\ yielded[i].uname = IF uname = << >> THEN ToDecimal(yielded[i].uid) ELSE uname
        /\ yielded[i].gname = IF gname = << >> THEN ToDecimal(yielded[i].gid) ELSE gname
        /\ yielded[i].uid = parseOctalBytes(BlockOf(i), 108, OCTAL8)
        /\ yielded[i].gid = parseOctalBytes(BlockOf(i), 116, OCTAL8)

\* A user name of its own beside a group name made of the gid, and both
\* names made of the numbers.
C33_Witness ==
  /\ Len(yielded) = 2
  /\ TextOf(1, 265, 32) = S_root /\ TextOf(1, 297, 32) = << >>
  /\ yielded[1].uname = S_root /\ yielded[1].gname = <<49>>
  /\ TextOf(2, 265, 32) = S_user /\ yielded[2].uname = S_user

TypeFlag(i) == BlockOf(i)[157]

\* C34: a decoded header is a directory exactly when its typeflag byte is
\* '5'; an entry with any other typeflag is a file: getContent returns the
\* size bytes behind its header, and the next header is read behind those
\* bytes and their padding, whether they were read or skipped.
C34_KindByTypeflag ==
  \A i \in 1..Len(yielded) :
    /\ yielded[i].kind = "directory" <=> TypeFlag(i) = 53
    /\ (TypeFlag(i) # 53 /\ ~overlapped) =>
         /\ yielded[i].kind = "file"
         /\ yielded[i].content.mode = "buffer"
              => yielded[i].content.data
                   = SubSeq(Flatten(input), yielded[i].at + BLOCK + 1,
                            yielded[i].at + BLOCK + yielded[i].size)
         /\ i < Len(yielded)
              => yielded[i + 1].at
                   = yielded[i].at + BLOCK + yielded[i].size + PaddingFor(yielded[i].size)

\* A long-name entry ('L') of 513 bytes, read as a file, and the entry behind it.
C34_Witness ==
  /\ ~overlapped
  /\ Len(yielded) = 2
  /\ TypeFlag(1) = 76 /\ yielded[1].kind = "file" /\ yielded[1].size = 513
  /\ yielded[1].content.mode = "buffer" /\ Len(yielded[1].content.data) = 513
  /\ yielded[2].at = 1536 /\ yielded[2].path = S_hello_txt

(***************************************************************************)
(* Properties of packing a content source, checked under SpecPack.         *)
(***************************************************************************)
\* The packer is inside the loop over the chunks of a generator or readable.
InSource == pk.pc = "source"

\* C35: while the packer forwards a generator or readable content source, the
\* chunks it has emitted for the entry are the header, whose size field is
\* the declared length, followed by exactly the chunks pulled so far, each
\* unchanged and in the order produced; the header is there before the first
\* chunk is pulled.
C35_HeaderThenChunks ==
  InSource =>
    LET item == entries[pk.idx]
        h == Len(out) - pk.chunk
    IN  /\ h >= 1
        /\ Len(out[h]) = BLOCK
        /\ parseOctalBytes(out[h], 124, OCTAL12) = item.content.length
        /\ parseString(out[h], 0, MAX_NAME) = Trim(item.path)
        /\ \A k \in 1..pk.chunk : out[h + k] = item.content.chunks[k]
        /\ TotalLen(out) = recs[pk.idx].at + BLOCK + pk.position

\* Both chunks of a generator forwarded behind its header; and a generator
\* that declares 10 bytes, with its header out and nothing pulled yet.
C35_Witness ==
  /\ InSource
  /\ entries = <<FileLying, FileGen513>>
  /\ pk.idx = 2 /\ pk.chunk = 2
  /\ Len(out) = 6
  /\ out[5] = Bytes(300, 2) /\ out[6] = Bytes(213, 3)
  /\ parseOctalBytes(out[1], 124, OCTAL12) = 10

(***************************************************************************)
(* Properties of a failed extraction, checked under SpecDamaged.           *)
(***************************************************************************)
IterationFailed == ex.status = "failed"

\* The step is a next() call made after the iteration has ended.
LateNext == last'.entry = 0 /\ last'.result = "done" /\ last' # last

\* C36: once a next() call has failed (bad magic, bad checksum, incomplete
\* header, malformed terminator, end of stream in the auto-skip), the
\* iteration stays failed with that error, no entry is yielded any more, and
\* a later next() call reads nothing from the cursor.
C36_FailureEndsIteration ==
  [][IterationFailed =>
       /\ ex' = ex
       /\ Len(yielded') = Len(yielded)
       /\ LateNext => cur' = cur /\ yielded' = yielded /\ skip' = skip]_vars

\* The first of two headers has a damaged checksum; next() was called again
\* and the intact second entry was not yielded.
C36_Witness ==
  /\ IterationFailed /\ ex.error = "Invalid checksum"
  /\ entries = <<DirMy, FileHello>>
  /\ damage.kind = "byte" /\ damage.at < BLOCK
  /\ yielded = << >>
  /\ last.entry = 0 /\ last.result = "done"

(***************************************************************************)
(* Termination of the extraction, checked under SpecKeepsCalling.          *)
(***************************************************************************)
IterationEnded == ex.status \in {"done", "failed"}

\* C37: over a finite input, with a consumer that keeps calling next(), a
\* running iteration ends, cleanly or with an error; and every step that
\* yields an entry instead of ending the iteration has taken at least 512
\* bytes from the input.
C37_Terminates ==
  /\ (ex.status = "running") ~> IterationEnded
  /\ [][Len(yielded') > Len(yielded) =>
          /\ Len(yielded') = Len(yielded) + 1
          /\ Pos(input, cur') >= Pos(input, cur) + BLOCK]_vars

\* Two entries were yielded and the iteration ended cleanly with the whole
\* input taken.
C37_Witness ==
  /\ ex.status = "done"
  /\ Len(yielded) = 2 /\ yielded[2].at >= BLOCK
  /\ Pos(input, cur) = TotalLen(input)

(***************************************************************************)
(* Properties of the file-item helpers, checked under SpecItem.            *)
(***************************************************************************)
\* the chunks of the source as Buffers, in the order the source gives them
BufferedChunks(source) ==
  [i \in 1..Len(source.chunks) |-> getBuffer(source.strings, source.chunks[i])]

ReturnedBuffered ==
  /\ mk.taken = Len(mk.source.chunks)
  /\ mk.item.content.length = TotalLen(BufferedChunks(mk.source))
  /\ mk.item.content.chunks = BufferedChunks(mk.source)

ReturnedUnread ==
  /\ mk.taken = 0
  /\ mk.item.content.kind = mk.helper
  /\ mk.item.content.length = mk.length.value
  /\ mk.item.content.chunks = mk.source.chunks

ReadOnce(i) ==
  /\ yielded[i].calls = 1
  /\ yielded[i].consumed
  /\ yielded[i].content.mode = "buffer"

\* C39: extractTo calls getContent('buffer') exactly once for every file entry
\* and has its result before it pulls the next entry, and calls no accessor
\* for a directory; so no call ends in 'Content has already been consumed',
\* no entry is skipped automatically, and no content stream is ever opened.
C39_ExtractToObeysProtocol ==
  /\ \A i \in 1..Len(yielded) :
       /\ yielded[i].kind = "directory" => yielded[i].calls = 0
       /\ yielded[i].kind = "file" => yielded[i].calls <= 1
       /\ yielded[i].kind = "file" /\ (i < Len(yielded) \/ ex.status = "done")
            => ReadOnce(i)
  /\ last.result # "consumed"
  /\ skip.entry = 0
  /\ readables = << >>

\* C39: an archive of a directory and a file of 513 bytes is extracted to its
\* end: one call for the file, none for the directory
C39_Witness ==
  /\ ex.status = "done"
  /\ Len(yielded) = 2
  /\ \E i, j \in 1..2 :
       /\ yielded[i].kind = "directory" /\ yielded[i].calls = 0
       /\ yielded[j].kind = "file" /\ ReadOnce(j) /\ yielded[j].size > BLOCK
  /\ last.n = 1
  /\ skip.entry = 0

============================================================================
